---- MODULE Spec2Model ----
(***************************************************************************)
(* Verification model of the concurrency benchmarks of the repository.     *)
(*                                                                         *)
(*   atvd-11  run_with_thread_pool : fixed worker pool fed by an unbounded *)
(*            mpsc channel of Option<(start, end)> jobs, results returned  *)
(*            on a second mpsc channel, one None per worker as shutdown.   *)
(*   atvd-8   run_producer_consumer: two producers and two consumers on a  *)
(*            bounded sync_channel<i32>, SENTINEL (-1) as shutdown.        *)
(*                                                                         *)
(* Every thread is a process with a program counter; one action is one     *)
(* step between two operations on shared state (channel, mutex, atomic).   *)
(***************************************************************************)
EXTENDS Integers, Sequences, FiniteSets, TLC

(***************************************************************************)
(* Bounds of the model.  The program's TASK_COUNT (400), worker counts     *)
(* (2, 4, 8) and BLOCK_SIZE (1000) are checked at reduced scale, and so    *)
(* are QUEUE_CAPACITY (32) and the width of an item (i32): at the reduced  *)
(* width the wrap-around of `as i32` is within reach of a few items, where *)
(* the program needs about 2^32 of them.                                   *)
(***************************************************************************)
MaxTasks == 3

MaxWorkers == 2

BLOCK_SIZE == 2

\* Largest total_items a call of run_producer_consumer is given.
MaxItems == 10

\* sync_channel capacity: 32 in the program, checked at reduced scale.
QUEUE_CAPACITY == 2

\* Width of the item type: i32 (32 bits) in the program, checked at reduced scale.
I32_BITS == 2

\* The producer stride of an item tag: 10_000 in the program, reduced with I32_BITS.
TAG_STRIDE == 1
\* The longest time one run takes, in clock ticks.
MaxElapsed == 2

PRODUCER_COUNT == 2

CONSUMER_COUNT == 2

SENTINEL == -1
\* const RUNS: usize = 5
RUNS == 5

\* The longest command-line argument or input line tried, in characters.
MaxTextLen == 2

\* The most threads barrier_two_phase is called with.
MaxBarrierThreads == 4

\* Bound on the totals a run returns: 0 .. MaxTotal.
MaxTotal == 1

\* Width of the element and sum type: i64 (64 bits) in the program, checked at
\* reduced scale.
I64_BITS == 6

\* The longest vector of atvd-9.
MaxVectorLen == 8

\* The most threads parallel_sum is called with.
MaxSumThreads == 4

\* The most threads estimate_pi_parallel is called with.
MaxPiThreads == 3

\* The most samples per thread.
MaxSamples == 3

\* The leading bits of a sample that the circle test keeps.
FRAC_BITS == 8

\* struct XorShift64 { state: u64 }
U64_BITS == 64

\* x ^= x << 13; x ^= x >> 7; x ^= x << 17
SHIFT_LEFT_A == 13

SHIFT_RIGHT_B == 7

SHIFT_LEFT_C == 17

\* The most threads a counter strategy is called with.
MaxThreads == 2

\* The largest ITERATIONS_PER_THREAD tried (1_000_000 in the source).
MaxIterations == 3

\* The largest BLOCK_SIZE of atvd-5 tried (1_000 in the source).
MaxBlockSize == 3

\* const READERS: usize = 5, scaled.
READERS == 1

\* const WRITERS: usize = 2
WRITERS == 2

\* const OPS_PER_READER: usize = 5_000, scaled.
OPS_PER_READER == 1

\* const OPS_PER_WRITER: usize = 3_000, scaled.
OPS_PER_WRITER == 2

\* const ACCOUNT_KEYS: usize = 64, scaled.
ACCOUNT_KEYS == 2

\* const DEFAULT_TOTAL_ITEMS: usize = 200 (atvd-8)
DEFAULT_TOTAL_ITEMS == 200

\* const DEFAULT_VECTOR_LEN: usize = 20_000_000 (atvd-9)
DEFAULT_VECTOR_LEN == 20000000

\* const DEFAULT_SAMPLES_PER_THREAD: usize = 200_000 (atvd-10)
DEFAULT_SAMPLES_PER_THREAD == 200000

(***************************************************************************)
(* atvd-11: state of one call of run_with_thread_pool.                     *)
(***************************************************************************)
VARIABLES
    tasks,            \* the task list handed to the call (build_tasks)
    workers,          \* the worker count handed to the call
    main_pc,          \* position of the calling thread
    mi,               \* index of the calling thread's current for loop
    job_q,            \* entries pending in the job channel (job_tx -> job_rx)
    job_tx_alive,     \* job_tx not yet dropped
    job_rx_lock,      \* holder of the Mutex around job_rx, or NoHolder
    result_q,         \* entries pending in the result channel
    result_tx_count,  \* live senders of the result channel
    result_rx_alive,  \* result_rx not yet dropped
    wpc,              \* position of each worker thread
    message,          \* what each worker's last recv returned
    total,            \* the accumulator of the calling thread
    dequeued,         \* history: how often each task was dequeued
    processed,        \* history: how often each task's partial was sent
    signals,          \* history: how many None entries each worker dequeued
    joins,            \* history: how often each worker's handle was joined
    dataset           \* the Vec<i32> behind the Arc the workers share

vars11 == <<tasks, workers, main_pc, mi, job_q, job_tx_alive, job_rx_lock,
            result_q, result_tx_count, result_rx_alive, wpc, message, total,
            dequeued, processed, signals, joins, dataset>>

(***************************************************************************)
(* atvd-8: state of one call of run_producer_consumer.                     *)
(***************************************************************************)
VARIABLES
    total_items,      \* the sizing parameter handed to the call
    pc_main,          \* position of the calling thread
    pj,               \* index of the calling thread's current for loop
    queue,            \* entries pending in the sync_channel (tx -> rx)
    tx_count,         \* live Sender clones of the channel
    shared_rx_lock,   \* holder of the Mutex around rx, or NoHolder
    ppc,              \* position of each producer thread
    item_idx,         \* loop index of each producer thread
    cpc,              \* position of each consumer thread
    cmsg,             \* what each consumer's last recv returned
    produced_count,   \* AtomicUsize
    consumed_count,   \* AtomicUsize
    sentinel_count,   \* AtomicUsize
    result,           \* the ProducerConsumerResult returned
    received,         \* history: how often each produced item was dequeued
    sentinels_seen,   \* history: how many of main's sentinels each consumer dequeued
    producer_joins,   \* history: how often each producer's handle was joined
    consumer_joins    \* history: how often each consumer's handle was joined

vars8 == <<total_items, pc_main, pj, queue, tx_count, shared_rx_lock, ppc,
           item_idx, cpc, cmsg, produced_count, consumed_count,
           sentinel_count, result, received, sentinels_seen, producer_joins,
           consumer_joins>>

(***************************************************************************)
(* measure_runs: state of one call of the harness that every program uses. *)
(***************************************************************************)
VARIABLES
    m_pc,             \* position of the thread that called measure_runs
    run,              \* the loop variable: for run in 0..RUNS
    durations,        \* Vec<Duration>, in clock ticks
    outputs,          \* Vec<T>
    avg,              \* the mean to return, a fraction num / den
    calls             \* history: the arguments job was called with, in order

varsM == <<m_pc, run, durations, outputs, avg, calls>>

(***************************************************************************)
(* main of a program that reads a sizing parameter (atvd-2 .. atvd-10):    *)
(* the process as its environment sees it.                                 *)
(***************************************************************************)
VARIABLES
    scenario,         \* which program runs: N for atvd-N
    arg,              \* env::args().nth(1): present or not, and its text
    stdin_line,       \* what read_line yields when it is called
    p_pc,             \* position of main
    size,             \* the sizing parameter main got
    stdout,           \* what was written to standard output, in order
    stderr,           \* what was written to standard error, in order
    exit_status,      \* how the process ended, "running" until then
    runs_started      \* how many workload runs were started

varsP == <<scenario, arg, stdin_line, p_pc, size, stdout, stderr, exit_status,
           runs_started>>

(***************************************************************************)
(* The shared-counter strategies of atvd-3 .. atvd-6: one call.            *)
(***************************************************************************)
VARIABLES
    strategy,             \* which function is called
    thread_count,         \* its argument
    iterations_per_thread,\* ITERATIONS_PER_THREAD
    batch_size,           \* BLOCK_SIZE of atvd-5
    counter,              \* the shared counter: the AtomicUsize, or the usize in the Mutex
    counter_lock,         \* the thread holding the Mutex, NoHolder if free
    poisoned,             \* whether the Mutex is poisoned
    c_main,               \* position of the calling thread
    c_i,                  \* index of the calling thread's current for loop
    tpc,                  \* position of each spawned thread
    iter,                 \* loop iterations each thread has completed
    current,              \* the value each thread last read from the counter
    local_batch,          \* each thread's local_batch (lock_in_blocks) or local_total (lock_once)
    c_result,             \* the value the call returned
    increments,           \* history: increments performed so far, local ones included
    stores                \* history: writes to the shared counter so far

varsC == <<strategy, thread_count, iterations_per_thread, batch_size, counter,
           counter_lock, poisoned, c_main, c_i, tpc, iter, current, local_batch,
           c_result, increments, stores>>

(***************************************************************************)
(* atvd-11: naive_threads_per_task, one call.                              *)
(***************************************************************************)
VARIABLES
    n_tasks,          \* the (start, end) ranges, one thread each
    n_dataset,        \* the Vec<i32> behind the Arc the threads share
    n_main,           \* position of the calling thread
    n_i,              \* index of the calling thread's current for loop
    npc,              \* position of each dedicated thread
    n_value,          \* what each dedicated thread returned
    n_total           \* total of the calling thread

varsN == <<n_tasks, n_dataset, n_main, n_i, npc, n_value, n_total>>

(***************************************************************************)
(* atvd-12: run_with_mutex and run_with_rwlock, one call.                  *)
(***************************************************************************)
VARIABLES
    primitive,        \* "Mutex" for run_with_mutex, "RwLock" for run_with_rwlock
    db,               \* the HashMap behind the lock: key -> value
    db_writer,        \* the thread holding the lock exclusively, or NoHolder
    db_readers,       \* the threads holding a read guard of the RwLock
    db_poisoned,      \* whether the lock is poisoned
    db_failed,        \* history: how the lock was held by a thread that failed
    arrived,          \* threads that reached the barrier
    d_main,           \* position of the calling thread
    d_i,              \* index of the calling thread's current for loop
    dpc,              \* position of each reader and writer
    d_iter,           \* loop iterations each thread has completed
    d_current,        \* the entry value a writer last read
    stats,            \* each thread's ThreadStats so far
    metrics           \* the RunMetrics of the call

varsD == <<primitive, db, db_writer, db_readers, db_poisoned, db_failed,
           arrived, d_main, d_i, dpc, d_iter, d_current, stats, metrics>>

(***************************************************************************)
(* atvd-7: barrier_two_phase, one call.                                    *)
(***************************************************************************)
VARIABLES
    b_thread_count,   \* the argument thread_count
    phase1_counter,   \* the AtomicUsize
    violation,        \* the AtomicBool
    b_count,          \* the Barrier: threads waiting in the current generation
    b_generation,     \* the Barrier: how often it has released its threads
    b_seen,           \* the generation each waiting thread arrived in
    b_main,           \* position of the calling thread
    b_i,              \* index of the calling thread's current for loop
    bpc,              \* position of each thread
    phase2_started,   \* history: the value of phase1_counter each thread found after the barrier
    b_result          \* the value the call returned

varsB == <<b_thread_count, phase1_counter, violation, b_count, b_generation,
           b_seen, b_main, b_i, bpc, phase2_started, b_result>>

(***************************************************************************)
(* main: the comparison of the outputs of measure_runs with the reference. *)
(***************************************************************************)
VARIABLES
    check_kind,       \* which outputs main looks at
    baseline,         \* the reference: baseline_sum, sequential_result, expected_final
    v_outputs,        \* the outputs measure_runs returned, run 0 first
    v_pc,             \* position of main
    v_correct         \* naive_correct, correct, rw_correct

varsV == <<check_kind, baseline, v_outputs, v_pc, v_correct>>

(***************************************************************************)
(* atvd-9: main with the oracle, one sequential_sum and one parallel_sum.  *)
(***************************************************************************)
VARIABLES
    vector_len,       \* the sizing parameter
    sum_threads,      \* the argument threads of parallel_sum
    overflow_checks,  \* the build: arithmetic overflow panics, or wraps
    expected_sum,     \* arithmetic_series_sum(vector_len as i64 - 1)
    sequential_result,\* what sequential_sum returned
    s_main,           \* position of the main thread
    chunk_idx,        \* loop variable of the spawning loop
    handles,          \* the range of each spawned thread, in spawn order
    hpc,              \* position of each spawned thread
    partials,         \* what each spawned thread returned
    join_idx,         \* how many handles are joined
    s_total,          \* the local total of parallel_sum
    inline_range,     \* the range parallel_sum summed in the calling thread
    parallel_result,  \* what parallel_sum returned
    total_matches     \* 'confere'

varsS == <<vector_len, sum_threads, overflow_checks, expected_sum,
           sequential_result, s_main, chunk_idx, handles, hpc, partials,
           join_idx, s_total, inline_range, parallel_result, total_matches>>

(***************************************************************************)
(* atvd-10: estimate_pi_parallel, one call.                                *)
(***************************************************************************)
VARIABLES
    samples_per_thread, \* the argument samples_per_thread
    pi_threads,       \* the argument threads
    e_main,           \* position of the calling thread
    e_i,              \* index of the calling thread's current loop
    epc,              \* position of each run_monte_carlo
    generator,        \* the state of each XorShift64
    e_idx,            \* loop variable idx of each run_monte_carlo
    inside,           \* the local inside of each run_monte_carlo
    e_total_samples,  \* the local total_samples of the calling thread
    e_inside,         \* the local inside of the calling thread
    pi_result,        \* the MonteCarloResult returned (the counts)
    finish_order      \* history: the threads in the order they ended

varsE == <<samples_per_thread, pi_threads, e_main, e_i, epc, generator, e_idx,
           inside, e_total_samples, e_inside, pi_result, finish_order>>

vars == <<vars11, vars8, varsM, varsP, varsC, varsD, varsN, varsB, varsV, varsS, varsE>>

\* What an action of one program leaves alone: the state of the others.
others11 == <<vars8, varsM, varsP, varsC, varsD, varsN, varsB, varsV, varsS, varsE>>

others8 == <<vars11, varsM, varsP, varsC, varsD, varsN, varsB, varsV, varsS, varsE>>

othersM == <<vars11, vars8, varsP, varsC, varsD, varsN, varsB, varsV, varsS, varsE>>

othersP == <<vars11, vars8, varsM, varsC, varsD, varsN, varsB, varsV, varsS, varsE>>

othersC == <<vars11, vars8, varsM, varsP, varsD, varsN, varsB, varsV, varsS, varsE>>

othersD == <<vars11, vars8, varsM, varsP, varsC, varsN, varsB, varsV, varsS, varsE>>

othersN == <<vars11, vars8, varsM, varsP, varsC, varsD, varsB, varsV, varsS, varsE>>

othersB == <<vars11, vars8, varsM, varsP, varsC, varsD, varsN, varsV, varsS, varsE>>

othersV == <<vars11, vars8, varsM, varsP, varsC, varsD, varsN, varsB, varsS, varsE>>

othersS == <<vars11, vars8, varsM, varsP, varsC, varsD, varsN, varsB, varsV, varsE>>

othersE == <<vars11, vars8, varsM, varsP, varsC, varsD, varsN, varsB, varsV, varsS>>

\* The Mutex is free.
NoHolder == 0 - 1

\* The state of a Mutex that is free and poisoned: a thread panicked while it
\* held the guard.
Poisoned == 0 - 2

WorkerIds == 0 .. (MaxWorkers - 1)

\* Option<(usize, usize)> as sent on the job channel.
Some(range) == [kind |-> "Some", start |-> range[1], end |-> range[2]]

None == [kind |-> "None", start |-> 0, end |-> 0]

\* Result<_, RecvError> of a recv on a channel that is empty with no sender.
RecvErr == [kind |-> "Err", start |-> 0, end |-> 0]

NoMessage == [kind |-> "none_yet", start |-> 0, end |-> 0]

\* generate_data: element idx is ((idx * 31 + 7) % 1000) - 500.
generate_data(len) == [idx \in 0 .. (len - 1) |-> ((idx * 31 + 7) % 1000) - 500]

\* build_tasks: task k covers [k * block_size, k * block_size + block_size).
build_tasks(task_count, block_size) ==
    [k \in 1 .. task_count |->
        <<(k - 1) * block_size, (k - 1) * block_size + block_size>>]

\* data[start..end].iter().map(|&v| v as i64).sum()
RECURSIVE slice_sum(_, _, _)
slice_sum(d, start, end) ==
    IF start >= end THEN 0 ELSE d[start] + slice_sum(d, start + 1, end)

\* The shared dataset of the call: generate_data(TASK_COUNT * BLOCK_SIZE).
data == generate_data(Len(tasks) * BLOCK_SIZE)

\* sequential_process: the sum of the slice sums in task order.
RECURSIVE sequential_fold(_, _, _)
sequential_fold(d, ts, k) ==
    IF k > Len(ts) THEN 0
    ELSE slice_sum(d, ts[k][1], ts[k][2]) + sequential_fold(d, ts, k + 1)

sequential_process(d, ts) == sequential_fold(d, ts, 1)

\* The task a job entry stands for (build_tasks makes the ranges disjoint).
TaskOf(msg) == (msg.start \div BLOCK_SIZE) + 1

(***************************************************************************)
(* std::sync::mpsc as the program uses it.                                 *)
(***************************************************************************)
\* try_recv in place of recv: it returns at once, an error when nothing pends.
RecvReady_try(q, senders_alive) == TRUE

\* recv returns when an entry is pending or every sender is gone; else blocks.
RecvReady(q, senders_alive) == Len(q) > 0 \/ ~senders_alive

\* What recv returns once it is ready: the oldest entry, or err.
RecvValue(q, err) == IF Len(q) > 0 THEN Head(q) ELSE err

\* A receive that leaves the entry in the channel.
RecvRest_keep(q) == q

\* What recv leaves in the channel: the oldest entry is taken out.
RecvRest(q) == IF Len(q) > 0 THEN Tail(q) ELSE q

(***************************************************************************)
(* atvd-11: run_with_thread_pool.                                          *)
(***************************************************************************)
Workers == 0 .. (workers - 1)

Init11 ==
    \E n \in 0 .. MaxTasks, w \in 1 .. MaxWorkers :
        /\ tasks = build_tasks(n, BLOCK_SIZE)
        /\ workers = w
        /\ main_pc = "spawn"
        /\ mi = 0
        /\ job_q = <<>>
        /\ job_tx_alive = TRUE
        /\ job_rx_lock = NoHolder
        /\ result_q = <<>>
        /\ result_tx_count = 1
        /\ result_rx_alive = TRUE
        /\ wpc = [x \in 0 .. (w - 1) |-> "unspawned"]
        /\ message = [x \in 0 .. (w - 1) |-> NoMessage]
        /\ total = 0
        /\ dequeued = [k \in 1 .. n |-> 0]
        /\ processed = [k \in 1 .. n |-> 0]
        /\ signals = [x \in 0 .. (w - 1) |-> 0]
        /\ joins = [x \in 0 .. (w - 1) |-> 0]
        /\ dataset = generate_data(n * BLOCK_SIZE)

\* The state of atvd-11 while another program is the one running.
Idle11 ==
    /\ tasks = <<>>
    /\ workers = 0
    /\ main_pc = "idle"
    /\ mi = 0
    /\ job_q = <<>>
    /\ job_tx_alive = FALSE
    /\ job_rx_lock = NoHolder
    /\ result_q = <<>>
    /\ result_tx_count = 0
    /\ result_rx_alive = FALSE
    /\ wpc = <<>>
    /\ message = <<>>
    /\ total = 0
    /\ dequeued = <<>>
    /\ processed = <<>>
    /\ signals = <<>>
    /\ joins = <<>>
    /\ dataset = <<>>

\* The calling thread panics (an expect fails): unwinding drops its locals.
MainPanic11 ==
    /\ main_pc' = "panicked"
    /\ job_tx_alive' = FALSE
    /\ result_rx_alive' = FALSE

\* One shutdown signal too few.
ShutdownSignals_short == workers - 1

\* How many None entries the calling thread sends: for _ in 0..workers.
ShutdownSignals == workers

\* One result too few collected.
ResultsToCollect_short == Len(tasks) - 1

\* How many results the calling thread collects: for _ in 0..tasks.len().
ResultsToCollect == Len(tasks)

\* The loop that sends the None entries left out.
AfterSendTasks_nosignal == IF ResultsToCollect > 0 THEN "collect" ELSE "join"

\* Where the calling thread goes after its loop over the tasks.
AfterSendTasks == "send_none"

AfterSendNone == IF ResultsToCollect > 0 THEN "collect" ELSE "join"

\* for worker_id in 0..workers { ... thread::spawn(...) }
MSpawn ==
    /\ main_pc = "spawn"
    /\ wpc' = [wpc EXCEPT ![mi] = "lock"]
    /\ result_tx_count' = result_tx_count + 1
    /\ mi' = IF mi + 1 < workers THEN mi + 1 ELSE 0
    /\ main_pc' = IF mi + 1 < workers THEN "spawn" ELSE "drop_result_tx"
    /\ UNCHANGED <<tasks, workers, job_q, job_tx_alive, job_rx_lock, result_q,
                   result_rx_alive, message, total, dequeued, processed,
                   signals>>
    /\ UNCHANGED joins
    /\ UNCHANGED dataset
    /\ UNCHANGED others11

\* The calling thread keeps its own sender of the result channel.
SendersAfterDrop_kept(n) == n

\* drop(result_tx): one live sender of the result channel less.
SendersAfterDrop(n) == n - 1

\* drop(result_tx)
MDropResultTx ==
    /\ main_pc = "drop_result_tx"
    /\ result_tx_count' = SendersAfterDrop(result_tx_count)
    /\ main_pc' = IF Len(tasks) > 0 THEN "send_tasks" ELSE AfterSendTasks
    /\ UNCHANGED <<tasks, workers, mi, job_q, job_tx_alive, job_rx_lock,
                   result_q, result_rx_alive, wpc, message, total, dequeued,
                   processed, signals>>
    /\ UNCHANGED joins
    /\ UNCHANGED dataset
    /\ UNCHANGED others11

\* A loop that sends its first entry whatever the index: a task twice, others never.
JobFor_first(i) == Some(tasks[1])

\* The entry the calling thread sends in iteration i of its loop over tasks.
JobFor(i) == Some(tasks[i + 1])

\* for &(start, end) in tasks { job_tx.send(Some((start, end))) }
MSendTask ==
    /\ main_pc = "send_tasks"
    /\ job_q' = Append(job_q, JobFor(mi))
    /\ mi' = IF mi + 1 < Len(tasks) THEN mi + 1 ELSE 0
    /\ main_pc' = IF mi + 1 < Len(tasks) THEN "send_tasks" ELSE AfterSendTasks
    /\ UNCHANGED <<tasks, workers, job_tx_alive, job_rx_lock, result_q,
                   result_tx_count, result_rx_alive, wpc, message, total,
                   dequeued, processed, signals>>
    /\ UNCHANGED joins
    /\ UNCHANGED dataset
    /\ UNCHANGED others11

\* for _ in 0..workers { job_tx.send(None) }
MSendNone ==
    /\ main_pc = "send_none"
    /\ job_q' = Append(job_q, None)
    /\ mi' = IF mi + 1 < ShutdownSignals THEN mi + 1 ELSE 0
    /\ main_pc' = IF mi + 1 < ShutdownSignals THEN "send_none" ELSE AfterSendNone
    /\ UNCHANGED <<tasks, workers, job_tx_alive, job_rx_lock, result_q,
                   result_tx_count, result_rx_alive, wpc, message, total,
                   dequeued, processed, signals>>
    /\ UNCHANGED joins
    /\ UNCHANGED dataset
    /\ UNCHANGED others11

\* for _ in 0..tasks.len() { total += result_rx.recv().expect(...) }
MRecvResult ==
    /\ main_pc = "collect"
    /\ RecvReady(result_q, result_tx_count > 0)
    /\ IF Len(result_q) > 0
          THEN /\ total' = total + Head(result_q)
               /\ result_q' = Tail(result_q)
               /\ mi' = IF mi + 1 < ResultsToCollect THEN mi + 1 ELSE 0
               /\ main_pc' = IF mi + 1 < ResultsToCollect THEN "collect" ELSE "join"
               /\ UNCHANGED <<job_tx_alive, result_rx_alive>>
          ELSE /\ MainPanic11
               /\ UNCHANGED <<total, result_q, mi>>
    /\ UNCHANGED <<tasks, workers, job_q, job_rx_lock, result_tx_count, wpc,
                   message, dequeued, processed, signals>>
    /\ UNCHANGED joins
    /\ UNCHANGED dataset
    /\ UNCHANGED others11

\* The handles dropped in place of joined: the calling thread does not wait.
MJoin_detach ==
    /\ main_pc = "join"
    /\ IF wpc[mi] # "panicked"
          THEN /\ mi' = IF mi + 1 < workers THEN mi + 1 ELSE 0
               /\ main_pc' = IF mi + 1 < workers THEN "join" ELSE "done"
               /\ job_tx_alive' = (mi + 1 < workers)
               /\ result_rx_alive' = (mi + 1 < workers)
          ELSE /\ MainPanic11
               /\ UNCHANGED mi
    /\ UNCHANGED <<tasks, workers, job_q, job_rx_lock, result_q,
                   result_tx_count, wpc, message, total, dequeued, processed,
                   signals>>
    /\ joins' = [joins EXCEPT ![mi] = @ + 1]
    /\ UNCHANGED dataset
    /\ UNCHANGED others11

\* for handle in worker_handles { handle.join().expect(...) }, then the return.
MJoin ==
    /\ main_pc = "join"
    /\ wpc[mi] \in {"done", "panicked"}
    /\ IF wpc[mi] = "done"
          THEN /\ mi' = IF mi + 1 < workers THEN mi + 1 ELSE 0
               /\ main_pc' = IF mi + 1 < workers THEN "join" ELSE "done"
               /\ job_tx_alive' = (mi + 1 < workers)
               /\ result_rx_alive' = (mi + 1 < workers)
          ELSE /\ MainPanic11
               /\ UNCHANGED mi
    /\ UNCHANGED <<tasks, workers, job_q, job_rx_lock, result_q,
                   result_tx_count, wpc, message, total, dequeued, processed,
                   signals>>
    /\ joins' = [joins EXCEPT ![mi] = @ + 1]
    /\ UNCHANGED dataset
    /\ UNCHANGED others11

\* A lock() that never reports the poison.
LockFails_never(lock) == FALSE

\* Mutex::lock returns Err when the Mutex is poisoned.
LockFails(lock) == lock = Poisoned

\* rx_clone.lock().expect("Mutex de jobs envenenado"): the worker gets the
\* guard, or panics if the Mutex is poisoned and drops its clones.
WLock(w) ==
    /\ wpc[w] = "lock"
    /\ job_rx_lock \in {NoHolder, Poisoned}
    /\ IF LockFails(job_rx_lock)
          THEN /\ wpc' = [wpc EXCEPT ![w] = "panicked"]
               /\ result_tx_count' = result_tx_count - 1
               /\ UNCHANGED job_rx_lock
          ELSE /\ wpc' = [wpc EXCEPT ![w] = "recv"]
               /\ job_rx_lock' = w
               /\ UNCHANGED result_tx_count
    /\ UNCHANGED <<tasks, workers, main_pc, mi, job_q, job_tx_alive, result_q,
                   result_rx_alive, message, total, dequeued,
                   processed, signals>>
    /\ UNCHANGED joins
    /\ UNCHANGED dataset
    /\ UNCHANGED others11

\* guard.recv(), the guard still held
WRecv(w) ==
    /\ wpc[w] = "recv"
    /\ RecvReady(job_q, job_tx_alive)
    /\ message' = [message EXCEPT ![w] = RecvValue(job_q, RecvErr)]
    /\ job_q' = RecvRest(job_q)
    /\ dequeued' = IF message'[w].kind = "Some"
                      THEN [dequeued EXCEPT ![TaskOf(message'[w])] = @ + 1]
                      ELSE dequeued
    /\ signals' = IF message'[w].kind = "None"
                     THEN [signals EXCEPT ![w] = @ + 1]
                     ELSE signals
    /\ wpc' = [wpc EXCEPT ![w] = "unlock"]
    /\ UNCHANGED <<tasks, workers, main_pc, mi, job_tx_alive, job_rx_lock,
                   result_q, result_tx_count, result_rx_alive, total,
                   processed>>
    /\ UNCHANGED joins
    /\ UNCHANGED dataset
    /\ UNCHANGED others11

\* A guard that outlives the block and is held over the whole iteration.
GuardAtBlockEnd_held(holder) == holder

\* let message = { let guard = ...; guard.recv() }; the guard is a local of the
\* block and is dropped where the block ends: the Mutex has no holder.
GuardAtBlockEnd(holder) == NoHolder

\* the guard goes out of scope at the end of the block
WUnlock(w) ==
    /\ wpc[w] = "unlock"
    /\ job_rx_lock' = GuardAtBlockEnd(w)
    /\ wpc' = [wpc EXCEPT ![w] = "match"]
    /\ UNCHANGED <<tasks, workers, main_pc, mi, job_q, job_tx_alive, result_q,
                   result_tx_count, result_rx_alive, message, total, dequeued,
                   processed, signals>>
    /\ UNCHANGED joins
    /\ UNCHANGED dataset
    /\ UNCHANGED others11

\* A slice that misses its last element.
partial_short(msg) == slice_sum(dataset, msg.start, msg.end - 1)

\* The partial result of one job: the sum of data[start..end].
partial(msg) == slice_sum(dataset, msg.start, msg.end)

\* A sum that takes the elements out of the vector as it adds them.
DataAfterSum_taken(d, start, end) ==
    [idx \in DOMAIN d |-> IF start <= idx /\ idx < end THEN 0 ELSE d[idx]]

\* data_clone[start..end].iter().map(|&value| value as i64).sum(): the slice
\* is borrowed from the Arc<Vec<i32>> and read; the vector stays as it is.
DataAfterSum(d, start, end) == d

\* match message { Ok(Some(..)) => send the partial, Ok(None) | Err(_) => break }
WMatch(w) ==
    /\ wpc[w] = "match"
    /\ IF message[w].kind = "Some"
          THEN IF result_rx_alive
                 THEN /\ result_q' = Append(result_q, partial(message[w]))
                      /\ processed' =
                            [processed EXCEPT ![TaskOf(message[w])] = @ + 1]
                      /\ wpc' = [wpc EXCEPT ![w] = "lock"]
                      /\ UNCHANGED result_tx_count
                 ELSE /\ wpc' = [wpc EXCEPT ![w] = "panicked"]
                      /\ result_tx_count' = result_tx_count - 1
                      /\ UNCHANGED <<result_q, processed>>
          ELSE /\ wpc' = [wpc EXCEPT ![w] = "done"]
               /\ result_tx_count' = result_tx_count - 1
               /\ UNCHANGED <<result_q, processed>>
    /\ UNCHANGED <<tasks, workers, main_pc, mi, job_q, job_tx_alive,
                   job_rx_lock, result_rx_alive, message, total, dequeued,
                   signals>>
    /\ UNCHANGED joins
    /\ dataset' = IF message[w].kind = "Some" /\ result_rx_alive
                     THEN DataAfterSum(dataset, message[w].start, message[w].end)
                     ELSE dataset
    /\ UNCHANGED others11

\* A worker fails while it processes a job: data_clone[start..end] panics (a
\* range outside the data), the thread unwinds and drops its clones; no
\* partial result is sent.
WFail(w) ==
    /\ wpc[w] = "match"
    /\ message[w].kind = "Some"
    /\ wpc' = [wpc EXCEPT ![w] = "panicked"]
    /\ result_tx_count' = result_tx_count - 1
    /\ UNCHANGED <<tasks, workers, main_pc, mi, job_q, job_tx_alive,
                   job_rx_lock, result_q, result_rx_alive, message, total,
                   dequeued, processed, signals>>
    /\ UNCHANGED joins
    /\ UNCHANGED dataset
    /\ UNCHANGED others11

\* A worker panics while it holds the guard of job_rx: the guard is dropped
\* during the unwinding, which poisons the Mutex.
WFailLocked(w) ==
    /\ wpc[w] \in {"recv", "unlock"}
    /\ job_rx_lock = w
    /\ wpc' = [wpc EXCEPT ![w] = "panicked"]
    /\ job_rx_lock' = Poisoned
    /\ result_tx_count' = result_tx_count - 1
    /\ UNCHANGED <<tasks, workers, main_pc, mi, job_q, job_tx_alive, result_q,
                   result_rx_alive, message, total, dequeued, processed,
                   signals>>
    /\ UNCHANGED joins
    /\ UNCHANGED dataset
    /\ UNCHANGED others11

\* One step of the calling thread, one step of worker w.
Main11 == MSpawn \/ MDropResultTx \/ MSendTask \/ MSendNone \/ MRecvResult \/ MJoin

Worker11(w) == WLock(w) \/ WRecv(w) \/ WUnlock(w) \/ WMatch(w)

Next11 ==
    \/ MSpawn
    \/ MDropResultTx
    \/ MSendTask
    \/ MSendNone
    \/ MRecvResult
    \/ MJoin
    \/ \E w \in Workers : WLock(w)
    \/ \E w \in Workers : WRecv(w)
    \/ \E w \in Workers : WUnlock(w)
    \/ \E w \in Workers : WMatch(w)

(***************************************************************************)
(* atvd-8: run_producer_consumer.                                          *)
(***************************************************************************)
Producers == 0 .. (PRODUCER_COUNT - 1)

Consumers == 0 .. (CONSUMER_COUNT - 1)

\* The thread that is neither producer nor consumer, as the origin of an entry.
MainThread == PRODUCER_COUNT

RECURSIVE Pow2(_)
Pow2(n) == IF n = 0 THEN 1 ELSE 2 * Pow2(n - 1)

\* x as i32: the low I32_BITS bits of x, read as a two's complement number.
as_i32(x) ==
    LET m == x % Pow2(I32_BITS)
    IN  IF m >= Pow2(I32_BITS - 1) THEN m - Pow2(I32_BITS) ELSE m

\* let item = (producer_id * 10_000 + item_idx) as i32
item_tag(producer_id, idx) == as_i32(producer_id * TAG_STRIDE + idx)

\* An entry of the channel: the i32 sent, and (history) who sent it and as what.
Entry(tag, prod, idx) == [ok |-> TRUE, tag |-> tag, prod |-> prod, idx |-> idx]

RecvErr8 == [ok |-> FALSE, tag |-> 0, prod |-> MainThread, idx |-> 0]

NoMessage8 == [ok |-> FALSE, tag |-> 0, prod |-> MainThread, idx |-> -1]

base_items == total_items \div PRODUCER_COUNT

remainder == total_items % PRODUCER_COUNT

\* The remainder handed out once too often: producer_id <= remainder.
items_to_produce_le(producer_id) ==
    base_items + (IF producer_id <= remainder THEN 1 ELSE 0)

\* let items_to_produce = base_items + if producer_id < remainder { 1 } else { 0 }
items_to_produce(producer_id) ==
    base_items + (IF producer_id < remainder THEN 1 ELSE 0)

\* The items producer p sends over the whole run.
ItemsOf(n, p) ==
    0 .. ((n \div PRODUCER_COUNT) + (IF p < n % PRODUCER_COUNT THEN 1 ELSE 0) - 1)

Init8 ==
    \E n \in PRODUCER_COUNT .. MaxItems :
        /\ total_items = n
        /\ pc_main = "spawn_producers"
        /\ pj = 0
        /\ queue = <<>>
        /\ tx_count = 1
        /\ shared_rx_lock = NoHolder
        /\ ppc = [p \in Producers |-> "unspawned"]
        /\ item_idx = [p \in Producers |-> 0]
        /\ cpc = [c \in Consumers |-> "unspawned"]
        /\ cmsg = [c \in Consumers |-> NoMessage8]
        /\ produced_count = 0
        /\ consumed_count = 0
        /\ sentinel_count = 0
        /\ result = [returned |-> FALSE, produced |-> 0, consumed |-> 0,
                     sentinels |-> 0, deadlock_detected |-> FALSE]
        /\ received = [p \in Producers |-> [i \in ItemsOf(n, p) |-> 0]]
        /\ sentinels_seen = [c \in Consumers |-> 0]
        /\ producer_joins = [p \in Producers |-> 0]
        /\ consumer_joins = [c \in Consumers |-> 0]

\* The state of atvd-8 while another program is the one running.
Idle8 ==
    /\ total_items = 0
    /\ pc_main = "idle"
    /\ pj = 0
    /\ queue = <<>>
    /\ tx_count = 0
    /\ shared_rx_lock = NoHolder
    /\ ppc = [p \in Producers |-> "idle"]
    /\ item_idx = [p \in Producers |-> 0]
    /\ cpc = [c \in Consumers |-> "idle"]
    /\ cmsg = [c \in Consumers |-> NoMessage8]
    /\ produced_count = 0
    /\ consumed_count = 0
    /\ sentinel_count = 0
    /\ result = [returned |-> FALSE, produced |-> 0, consumed |-> 0,
                 sentinels |-> 0, deadlock_detected |-> FALSE]
    /\ received = <<>>
    /\ sentinels_seen = [c \in Consumers |-> 0]
    /\ producer_joins = [p \in Producers |-> 0]
    /\ consumer_joins = [c \in Consumers |-> 0]

\* An unbounded channel in place of the sync_channel: a send never waits.
SendReady_unbounded(q) == TRUE

\* A send on the sync_channel completes only while fewer than capacity entries pend.
SendReady(q) == Len(q) < QUEUE_CAPACITY

\* How many sentinels the calling thread sends: for _ in 0..CONSUMER_COUNT.
SentinelsToSend == CONSUMER_COUNT

\* for producer_id in 0..PRODUCER_COUNT { ... thread::spawn(...) }
MSpawnProducer ==
    /\ pc_main = "spawn_producers"
    /\ tx_count' = IF items_to_produce(pj) > 0 THEN tx_count + 1 ELSE tx_count
    /\ ppc' = [ppc EXCEPT ![pj] = IF items_to_produce(pj) > 0 THEN "send" ELSE "done"]
    /\ pj' = IF pj + 1 < PRODUCER_COUNT THEN pj + 1 ELSE 0
    /\ pc_main' = IF pj + 1 < PRODUCER_COUNT THEN "spawn_producers" ELSE "spawn_consumers"
    /\ UNCHANGED <<total_items, queue, shared_rx_lock, item_idx, cpc, cmsg,
                   produced_count, consumed_count, sentinel_count, result,
                   received, sentinels_seen>>
    /\ UNCHANGED <<producer_joins, consumer_joins>>
    /\ UNCHANGED others8

\* for consumer_id in 0..CONSUMER_COUNT { ... thread::spawn(...) }
MSpawnConsumer ==
    /\ pc_main = "spawn_consumers"
    /\ cpc' = [cpc EXCEPT ![pj] = "lock"]
    /\ pj' = IF pj + 1 < CONSUMER_COUNT THEN pj + 1 ELSE 0
    /\ pc_main' = IF pj + 1 < CONSUMER_COUNT THEN "spawn_consumers" ELSE "join_producers"
    /\ UNCHANGED <<total_items, queue, tx_count, shared_rx_lock, ppc, item_idx,
                   cmsg, produced_count, consumed_count, sentinel_count,
                   result, received, sentinels_seen>>
    /\ UNCHANGED <<producer_joins, consumer_joins>>
    /\ UNCHANGED others8

\* for handle in producer_handles { handle.join().expect(...) }
MJoinProducer ==
    /\ pc_main = "join_producers"
    /\ ppc[pj] = "done"
    /\ pj' = IF pj + 1 < PRODUCER_COUNT THEN pj + 1 ELSE 0
    /\ pc_main' = IF pj + 1 < PRODUCER_COUNT THEN "join_producers" ELSE "send_sentinels"
    /\ UNCHANGED <<total_items, queue, tx_count, shared_rx_lock, ppc, item_idx,
                   cpc, cmsg, produced_count, consumed_count, sentinel_count,
                   result, received, sentinels_seen>>
    /\ producer_joins' = [producer_joins EXCEPT ![pj] = @ + 1]
    /\ UNCHANGED consumer_joins
    /\ UNCHANGED others8

\* for _ in 0..CONSUMER_COUNT { tx.send(SENTINEL).expect(...) }
MSendSentinel ==
    /\ pc_main = "send_sentinels"
    /\ SendReady(queue)
    /\ queue' = Append(queue, Entry(SENTINEL, MainThread, pj))
    /\ pj' = IF pj + 1 < SentinelsToSend THEN pj + 1 ELSE 0
    /\ pc_main' = IF pj + 1 < SentinelsToSend THEN "send_sentinels" ELSE "drop_tx"
    /\ UNCHANGED <<total_items, tx_count, shared_rx_lock, ppc, item_idx, cpc,
                   cmsg, produced_count, consumed_count, sentinel_count,
                   result, received, sentinels_seen>>
    /\ UNCHANGED <<producer_joins, consumer_joins>>
    /\ UNCHANGED others8

\* drop(tx)
MDropTx ==
    /\ pc_main = "drop_tx"
    /\ tx_count' = tx_count - 1
    /\ pc_main' = "join_consumers"
    /\ UNCHANGED <<total_items, pj, queue, shared_rx_lock, ppc, item_idx, cpc,
                   cmsg, produced_count, consumed_count, sentinel_count,
                   result, received, sentinels_seen>>
    /\ UNCHANGED <<producer_joins, consumer_joins>>
    /\ UNCHANGED others8

\* let deadlock_detected = produced != total_items || consumed != total_items
\*                         || sentinels != CONSUMER_COUNT
deadlock_detected(produced, consumed, sentinels) ==
    \/ produced # total_items
    \/ consumed # total_items
    \/ sentinels # CONSUMER_COUNT

\* for handle in consumer_handles { handle.join().expect(...) }; after the last
\* join the three counters are loaded and the result is returned.
MJoinConsumer ==
    /\ pc_main = "join_consumers"
    /\ cpc[pj] \in {"done", "panicked"}
    /\ IF cpc[pj] = "panicked"
          THEN /\ pc_main' = "panicked"
               /\ UNCHANGED <<pj, result>>
          ELSE /\ pj' = IF pj + 1 < CONSUMER_COUNT THEN pj + 1 ELSE 0
               /\ pc_main' = IF pj + 1 < CONSUMER_COUNT THEN "join_consumers" ELSE "done"
               /\ result' =
                    IF pj + 1 < CONSUMER_COUNT THEN result
                    ELSE [returned |-> TRUE,
                          produced |-> produced_count,
                          consumed |-> consumed_count,
                          sentinels |-> sentinel_count,
                          deadlock_detected |->
                              deadlock_detected(produced_count, consumed_count,
                                                sentinel_count)]
    /\ UNCHANGED <<total_items, queue, tx_count, shared_rx_lock, ppc, item_idx,
                   cpc, cmsg, produced_count, consumed_count, sentinel_count,
                   received, sentinels_seen>>
    /\ consumer_joins' = [consumer_joins EXCEPT ![pj] = @ + 1]
    /\ UNCHANGED producer_joins
    /\ UNCHANGED others8

\* try_send with its result ignored: on a full queue the item is dropped.
PSend_try(p) ==
    /\ ppc[p] = "send"
    /\ queue' = IF Len(queue) < QUEUE_CAPACITY
                   THEN Append(queue, Entry(item_tag(p, item_idx[p]), p, item_idx[p]))
                   ELSE queue
    /\ ppc' = [ppc EXCEPT ![p] = "count"]
    /\ UNCHANGED <<total_items, pc_main, pj, tx_count, shared_rx_lock, item_idx,
                   cpc, cmsg, produced_count, consumed_count, sentinel_count,
                   result, received, sentinels_seen>>
    /\ UNCHANGED <<producer_joins, consumer_joins>>
    /\ UNCHANGED others8

\* A send that puts the item at the head of the queue: a stack, not a queue.
PSend_front(p) ==
    /\ ppc[p] = "send"
    /\ SendReady(queue)
    /\ queue' = <<Entry(item_tag(p, item_idx[p]), p, item_idx[p])>> \o queue
    /\ ppc' = [ppc EXCEPT ![p] = "count"]
    /\ UNCHANGED <<total_items, pc_main, pj, tx_count, shared_rx_lock, item_idx,
                   cpc, cmsg, produced_count, consumed_count, sentinel_count,
                   result, received, sentinels_seen>>
    /\ UNCHANGED <<producer_joins, consumer_joins>>
    /\ UNCHANGED others8

\* producer_tx.send(item).expect(...): blocks while the queue is full
PSend(p) ==
    /\ ppc[p] = "send"
    /\ SendReady(queue)
    /\ queue' = Append(queue, Entry(item_tag(p, item_idx[p]), p, item_idx[p]))
    /\ ppc' = [ppc EXCEPT ![p] = "count"]
    /\ UNCHANGED <<total_items, pc_main, pj, tx_count, shared_rx_lock, item_idx,
                   cpc, cmsg, produced_count, consumed_count, sentinel_count,
                   result, received, sentinels_seen>>
    /\ UNCHANGED <<producer_joins, consumer_joins>>
    /\ UNCHANGED others8

\* produced_clone.fetch_add(1, SeqCst); then the next iteration, or the thread
\* ends and drops producer_tx
PCount(p) ==
    /\ ppc[p] = "count"
    /\ produced_count' = produced_count + 1
    /\ item_idx' = [item_idx EXCEPT ![p] = @ + 1]
    /\ ppc' = [ppc EXCEPT ![p] =
                 IF item_idx[p] + 1 < items_to_produce(p) THEN "send" ELSE "done"]
    /\ tx_count' = IF item_idx[p] + 1 < items_to_produce(p) THEN tx_count
                   ELSE tx_count - 1
    /\ UNCHANGED <<total_items, pc_main, pj, queue, shared_rx_lock, cpc, cmsg,
                   consumed_count, sentinel_count, result, received,
                   sentinels_seen>>
    /\ UNCHANGED <<producer_joins, consumer_joins>>
    /\ UNCHANGED others8

\* rx_clone.lock().expect("Falha ao adquirir lock do receiver"): the consumer
\* gets the guard, or panics if the Mutex is poisoned.
CLock(c) ==
    /\ cpc[c] = "lock"
    /\ shared_rx_lock \in {NoHolder, Poisoned}
    /\ IF LockFails(shared_rx_lock)
          THEN /\ cpc' = [cpc EXCEPT ![c] = "panicked"]
               /\ UNCHANGED shared_rx_lock
          ELSE /\ cpc' = [cpc EXCEPT ![c] = "recv"]
               /\ shared_rx_lock' = c
    /\ UNCHANGED <<total_items, pc_main, pj, queue, tx_count, ppc, item_idx,
                   cmsg, produced_count, consumed_count, sentinel_count,
                   result, received, sentinels_seen>>
    /\ UNCHANGED <<producer_joins, consumer_joins>>
    /\ UNCHANGED others8

\* receiver_guard.recv(), the guard still held
CRecv(c) ==
    /\ cpc[c] = "recv"
    /\ RecvReady(queue, tx_count > 0)
    /\ cmsg' = [cmsg EXCEPT ![c] = RecvValue(queue, RecvErr8)]
    /\ queue' = RecvRest(queue)
    /\ received' =
         IF cmsg'[c].ok /\ cmsg'[c].prod # MainThread
           THEN [received EXCEPT ![cmsg'[c].prod][cmsg'[c].idx] = @ + 1]
           ELSE received
    /\ sentinels_seen' =
         IF cmsg'[c].ok /\ cmsg'[c].prod = MainThread
           THEN [sentinels_seen EXCEPT ![c] = @ + 1]
           ELSE sentinels_seen
    /\ cpc' = [cpc EXCEPT ![c] = "unlock"]
    /\ UNCHANGED <<total_items, pc_main, pj, tx_count, shared_rx_lock, ppc,
                   item_idx, produced_count, consumed_count, sentinel_count,
                   result>>
    /\ UNCHANGED <<producer_joins, consumer_joins>>
    /\ UNCHANGED others8

\* the guard goes out of scope at the end of the block
CUnlock(c) ==
    /\ cpc[c] = "unlock"
    /\ shared_rx_lock' = GuardAtBlockEnd(c)
    /\ cpc' = [cpc EXCEPT ![c] = "match"]
    /\ UNCHANGED <<total_items, pc_main, pj, queue, tx_count, ppc, item_idx,
                   cmsg, produced_count, consumed_count, sentinel_count,
                   result, received, sentinels_seen>>
    /\ UNCHANGED <<producer_joins, consumer_joins>>
    /\ UNCHANGED others8

\* A consumer panics while it holds the guard of rx: the Mutex is poisoned.
CFailLocked(c) ==
    /\ cpc[c] \in {"recv", "unlock"}
    /\ shared_rx_lock = c
    /\ cpc' = [cpc EXCEPT ![c] = "panicked"]
    /\ shared_rx_lock' = Poisoned
    /\ UNCHANGED <<total_items, pc_main, pj, queue, tx_count, ppc, item_idx,
                   cmsg, produced_count, consumed_count, sentinel_count,
                   result, received, sentinels_seen>>
    /\ UNCHANGED <<producer_joins, consumer_joins>>
    /\ UNCHANGED others8

\* match message { Ok(SENTINEL) => count and break, Ok(item) => count,
\*                 Err(_) => break }
CMatch(c) ==
    /\ cpc[c] = "match"
    /\ sentinel_count' =
         IF cmsg[c].ok /\ cmsg[c].tag = SENTINEL THEN sentinel_count + 1
         ELSE sentinel_count
    /\ consumed_count' =
         IF cmsg[c].ok /\ cmsg[c].tag # SENTINEL THEN consumed_count + 1
         ELSE consumed_count
    /\ cpc' = [cpc EXCEPT ![c] =
                 IF cmsg[c].ok /\ cmsg[c].tag # SENTINEL THEN "lock" ELSE "done"]
    /\ UNCHANGED <<total_items, pc_main, pj, queue, tx_count, shared_rx_lock,
                   ppc, item_idx, cmsg, produced_count, result, received,
                   sentinels_seen>>
    /\ UNCHANGED <<producer_joins, consumer_joins>>
    /\ UNCHANGED others8

\* One step of the calling thread, of producer p, of consumer c.
Main8 ==
    \/ MSpawnProducer \/ MSpawnConsumer \/ MJoinProducer
    \/ MSendSentinel \/ MDropTx \/ MJoinConsumer

Producer8(p) == PSend(p) \/ PCount(p)

Consumer8(c) == CLock(c) \/ CRecv(c) \/ CUnlock(c) \/ CMatch(c)

Next8 ==
    \/ MSpawnProducer
    \/ MSpawnConsumer
    \/ MJoinProducer
    \/ MSendSentinel
    \/ MDropTx
    \/ MJoinConsumer
    \/ \E p \in Producers : PSend(p)
    \/ \E p \in Producers : PCount(p)
    \/ \E c \in Consumers : CLock(c)
    \/ \E c \in Consumers : CRecv(c)
    \/ \E c \in Consumers : CUnlock(c)
    \/ \E c \in Consumers : CMatch(c)

(***************************************************************************)
(* measure_runs (the same function in atvd-11 and atvd-8).                 *)
(***************************************************************************)
\* What job(run) returns: an output of type T, known by the run it came from.
JobOutput(r) == [run |-> r]

NoAvg == [num |-> 0, den |-> 0]

InitM ==
    /\ m_pc = "loop"
    /\ run = 0
    /\ durations = <<>>
    /\ outputs = <<>>
    /\ avg = NoAvg
    /\ calls = <<>>

\* The state of the harness while a program is modelled on its own.
IdleM ==
    /\ m_pc = "idle"
    /\ run = 0
    /\ durations = <<>>
    /\ outputs = <<>>
    /\ avg = NoAvg
    /\ calls = <<>>

\* A loop that stops one run early.
LoopEnd_short == RUNS - 1

\* for run in 0..RUNS
LoopEnd == RUNS

\* let start = Instant::now(); job(run) is called
MeasureCall ==
    /\ m_pc = "loop"
    /\ calls' = Append(calls, run)
    /\ m_pc' = "job"
    /\ UNCHANGED <<run, durations, outputs, avg>>
    /\ UNCHANGED othersM

\* job(run) returns; let elapsed = start.elapsed(); both are pushed, and the
\* loop goes on to the next run or ends
MeasureReturn ==
    /\ m_pc = "job"
    /\ \E elapsed \in 0 .. MaxElapsed :
          durations' = Append(durations, elapsed)
    /\ outputs' = Append(outputs, JobOutput(run))
    /\ run' = run + 1
    /\ m_pc' = IF run + 1 < LoopEnd THEN "loop" ELSE "avg"
    /\ UNCHANGED <<avg, calls>>
    /\ UNCHANGED othersM

\* An iterator that skips nothing.
skip_none(d, n) == d

\* .skip(n)
skip(d, n) == SubSeq(d, n + 1, Len(d))

\* .sum::<f64>() of the durations in seconds, here in ticks
RECURSIVE sum(_)
sum(d) == IF Len(d) = 0 THEN 0 ELSE Head(d) + sum(Tail(d))

\* let avg = durations.iter().skip(1).map(Duration::as_secs_f64).sum::<f64>()
\*           / (RUNS - 1) as f64; (avg, durations, outputs) is returned
MeasureAvg ==
    /\ m_pc = "avg"
    /\ avg' = [num |-> sum(skip(durations, 1)), den |-> RUNS - 1]
    /\ m_pc' = "done"
    /\ UNCHANGED <<run, durations, outputs, calls>>
    /\ UNCHANGED othersM

NextM ==
    \/ MeasureCall
    \/ MeasureReturn
    \/ MeasureAvg

(***************************************************************************)
(* main and read_total_items / read_thread_count / read_vector_len /       *)
(* read_samples_per_thread: the sizing parameter at the process boundary.  *)
(***************************************************************************)
\* The characters an argument or an input line is made of here.
Chars == {"0", "2", "a", "+", "-", " "}

Digits == {"0", "2"}

Whitespace == {" ", "\n"}

Texts == UNION {[1 .. k -> Chars] : k \in 0 .. MaxTextLen}

\* A line as read_line returns it: ended by a newline, or cut short by end of input.
Lines == Texts \cup {Append(t, "\n") : t \in Texts}

\* The programs that read a sizing parameter.
Scenarios == {2, 3, 4, 5, 6, 7, 8, 9, 10}

DigitValue(c) == IF c = "2" THEN 2 ELSE 0

RECURSIVE decimal(_)
decimal(ds) ==
    IF Len(ds) = 0 THEN 0
    ELSE decimal(SubSeq(ds, 1, Len(ds) - 1)) * 10 + DigitValue(ds[Len(ds)])

\* A parse that takes whatever is no number for zero.
parse_usize_or_zero(text) ==
    LET ds == IF Len(text) > 0 /\ text[1] = "+" THEN Tail(text) ELSE text
        good == Len(ds) > 0 /\ \A i \in 1 .. Len(ds) : ds[i] \in Digits
    IN  [ok |-> TRUE, value |-> IF good THEN decimal(ds) ELSE 0]

\* str::parse::<usize>: an optional '+', then one or more digits, nothing else.
parse_usize(text) ==
    LET ds == IF Len(text) > 0 /\ text[1] = "+" THEN Tail(text) ELSE text
        good == Len(ds) > 0 /\ \A i \in 1 .. Len(ds) : ds[i] \in Digits
    IN  [ok |-> good, value |-> IF good THEN decimal(ds) ELSE 0]

\* str::trim: leading and trailing whitespace removed.
RECURSIVE trim(_)
trim(text) ==
    IF Len(text) = 0 THEN text
    ELSE IF text[1] \in Whitespace THEN trim(Tail(text))
    ELSE IF text[Len(text)] \in Whitespace THEN trim(SubSeq(text, 1, Len(text) - 1))
    ELSE text

\* Whether the program's reader returns a default on an empty line
\* (if trimmed.is_empty() { return Ok(DEFAULT_...) }).
HasDefault(sc) == sc \in {8, 9, 10}

Default(sc) ==
    IF sc = 8 THEN DEFAULT_TOTAL_ITEMS
    ELSE IF sc = 9 THEN DEFAULT_VECTOR_LEN
    ELSE DEFAULT_SAMPLES_PER_THREAD

\* The least size main accepts: assert!(n > 0), assert!(total_items >=
\* PRODUCER_COUNT); atvd-9 asserts nothing.
MinSize(sc) ==
    IF sc = 8 THEN PRODUCER_COUNT
    ELSE IF sc = 9 THEN 0
    ELSE 1

\* What the reader returns: Ok(size) or Err(message).
ReadResult ==
    IF arg.present THEN parse_usize(arg.text)
    ELSE IF HasDefault(scenario) /\ Len(trim(stdin_line)) = 0
           THEN [ok |-> TRUE, value |-> Default(scenario)]
    ELSE parse_usize(trim(stdin_line))

InitP ==
    \E sc \in Scenarios, present \in BOOLEAN, text \in Lines :
        /\ present => text \in Texts
        /\ scenario = sc
        /\ arg = IF present THEN [present |-> TRUE, text |-> text]
                 ELSE [present |-> FALSE, text |-> <<>>]
        /\ stdin_line = IF present THEN <<>> ELSE text
        /\ p_pc = "read"
        /\ size = 0
        /\ stdout = <<>>
        /\ stderr = <<>>
        /\ exit_status = "running"
        /\ runs_started = 0

\* The state of the process model while a program is modelled on its own.
IdleP ==
    /\ scenario = 0
    /\ arg = [present |-> FALSE, text |-> <<>>]
    /\ stdin_line = <<>>
    /\ p_pc = "idle"
    /\ size = 0
    /\ stdout = <<>>
    /\ stderr = <<>>
    /\ exit_status = "running"
    /\ runs_started = 0

\* let n = read_...().unwrap_or_else(|err| { eprintln!("{}", err);
\* std::process::exit(1) }): the reader parses the argument, or prompts on
\* standard output and parses the line it reads.
PReadSize ==
    /\ p_pc = "read"
    /\ stdout' = IF arg.present THEN stdout ELSE Append(stdout, "prompt")
    /\ IF ReadResult.ok
          THEN /\ size' = ReadResult.value
               /\ p_pc' = "validate"
               /\ UNCHANGED <<stderr, exit_status>>
          ELSE /\ stderr' = Append(stderr, "invalid input")
               /\ exit_status' = "exit(1)"
               /\ p_pc' = "exited"
               /\ UNCHANGED size
    /\ UNCHANGED <<scenario, arg, stdin_line, runs_started>>
    /\ UNCHANGED othersP

\* assert!(n > 0, ...) / assert!(total_items >= PRODUCER_COUNT, ...), where
\* the program has one; then the banner is printed.
PValidate ==
    /\ p_pc = "validate"
    /\ IF size >= MinSize(scenario)
          THEN /\ stdout' = Append(stdout, "banner")
               /\ p_pc' = "runs"
               /\ UNCHANGED <<stderr, exit_status>>
          ELSE /\ stderr' = Append(stderr, "assertion failed")
               /\ exit_status' = "panic"
               /\ p_pc' = "exited"
               /\ UNCHANGED stdout
    /\ UNCHANGED <<scenario, arg, stdin_line, size, runs_started>>
    /\ UNCHANGED othersP

\* The measure_runs calls of main, RUNS workload runs each, then the report and
\* the return from main.
PRunWorkloads ==
    /\ p_pc = "runs"
    /\ runs_started' = RUNS
    /\ stdout' = Append(stdout, "report")
    /\ exit_status' = "success"
    /\ p_pc' = "exited"
    /\ UNCHANGED <<scenario, arg, stdin_line, size, stderr>>
    /\ UNCHANGED othersP

NextP ==
    \/ PReadSize
    \/ PValidate
    \/ PRunWorkloads

(***************************************************************************)
(* race_condition_counter (atvd-3, atvd-4), locked_counter (atvd-4) and    *)
(* lock_each_increment (atvd-5), lock_in_blocks, lock_once (atvd-5),       *)
(* atomic_counter (atvd-6), sequential_counter.                            *)
(***************************************************************************)
Strategies == {"race_condition_counter", "locked_counter", "lock_in_blocks",
               "lock_once", "atomic_counter"}

\* The strategies that keep the counter in a Mutex.
MutexStrategies == {"locked_counter", "lock_in_blocks", "lock_once"}

Threads == 1 .. MaxThreads

\* The threads the call spawns.
Spawned == 1 .. thread_count

\* sequential_counter: for _ in 0..thread_count { for _ in 0..ITERATIONS_PER_THREAD
\* { counter += 1 } }
RECURSIVE count_up(_, _)
count_up(c, n) == IF n = 0 THEN c ELSE count_up(c + 1, n - 1)

RECURSIVE sequential_counter(_, _)
sequential_counter(threads, iterations) ==
    IF threads = 0 THEN 0
    ELSE count_up(sequential_counter(threads - 1, iterations), iterations)

InitC ==
    \E st \in Strategies, tc \in 1 .. MaxThreads, it \in 1 .. MaxIterations,
       bs \in 1 .. MaxBlockSize :
        /\ (st # "lock_in_blocks") => bs = 1
        /\ strategy = st
        /\ thread_count = tc
        /\ iterations_per_thread = it
        /\ batch_size = bs
        /\ counter = 0
        /\ counter_lock = NoHolder
        /\ poisoned = FALSE
        /\ c_main = "spawn"
        /\ c_i = 1
        /\ tpc = [t \in Threads |-> "unspawned"]
        /\ iter = [t \in Threads |-> 0]
        /\ current = [t \in Threads |-> 0]
        /\ local_batch = [t \in Threads |-> 0]
        /\ c_result = 0
        /\ increments = 0
        /\ stores = 0

\* The state of the counter model while another program is modelled.
IdleC ==
    /\ strategy = "none"
    /\ thread_count = 0
    /\ iterations_per_thread = 0
    /\ batch_size = 0
    /\ counter = 0
    /\ counter_lock = NoHolder
    /\ poisoned = FALSE
    /\ c_main = "idle"
    /\ c_i = 0
    /\ tpc = [t \in Threads |-> "unspawned"]
    /\ iter = [t \in Threads |-> 0]
    /\ current = [t \in Threads |-> 0]
    /\ local_batch = [t \in Threads |-> 0]
    /\ c_result = 0
    /\ increments = 0
    /\ stores = 0

\* Where a spawned thread starts: the first shared or local step of its loop.
FirstStep ==
    IF strategy = "race_condition_counter" THEN "load"
    ELSE IF strategy = "locked_counter" THEN "lock"
    ELSE IF strategy = "atomic_counter" THEN "fetch_add"
    ELSE "increment"

\* for thread_id in 0..thread_count { handles.push(thread::spawn(...)) }
CSpawn ==
    /\ c_main = "spawn"
    /\ tpc' = [tpc EXCEPT ![c_i] = FirstStep]
    /\ IF c_i = thread_count
          THEN c_main' = "join" /\ c_i' = 1
          ELSE c_main' = "spawn" /\ c_i' = c_i + 1
    /\ UNCHANGED <<strategy, thread_count, iterations_per_thread, batch_size,
                   counter, counter_lock, poisoned, iter, current, local_batch,
                   c_result, increments, stores>>
    /\ UNCHANGED othersC

\* A store that writes back what was read.
StoreValue_same(cur) == cur

\* A store that adds two.
StoreValue_two(cur) == cur + 2

\* counter_clone.store(current + 1, Ordering::Relaxed)
StoreValue(cur) == cur + 1

\* let current = counter_clone.load(Ordering::Relaxed)
TLoad(t) ==
    /\ tpc[t] = "load"
    /\ current' = [current EXCEPT ![t] = counter]
    /\ tpc' = [tpc EXCEPT ![t] = "store"]
    /\ UNCHANGED <<strategy, thread_count, iterations_per_thread, batch_size,
                   counter, counter_lock, poisoned, c_main, c_i, iter,
                   local_batch, c_result, increments, stores>>
    /\ UNCHANGED othersC

\* counter_clone.store(current + 1, ...), and the end of the loop body.
TStore(t) ==
    /\ tpc[t] = "store"
    /\ counter' = StoreValue(current[t])
    /\ iter' = [iter EXCEPT ![t] = @ + 1]
    /\ tpc' = [tpc EXCEPT ![t] =
                  IF iter[t] + 1 < iterations_per_thread THEN "load" ELSE "done"]
    /\ increments' = increments + 1
    /\ stores' = stores + 1
    /\ UNCHANGED <<strategy, thread_count, iterations_per_thread, batch_size,
                   counter_lock, poisoned, c_main, c_i, current, local_batch,
                   c_result>>
    /\ UNCHANGED othersC

\* counter_clone.fetch_add(1, Ordering::Relaxed), and the end of the loop body.
TFetchAdd(t) ==
    /\ tpc[t] = "fetch_add"
    /\ counter' = counter + 1
    /\ iter' = [iter EXCEPT ![t] = @ + 1]
    /\ tpc' = [tpc EXCEPT ![t] =
                  IF iter[t] + 1 < iterations_per_thread THEN "fetch_add" ELSE "done"]
    /\ increments' = increments + 1
    /\ stores' = stores + 1
    /\ UNCHANGED <<strategy, thread_count, iterations_per_thread, batch_size,
                   counter_lock, poisoned, c_main, c_i, current, local_batch,
                   c_result>>
    /\ UNCHANGED othersC

\* A thread that never flushes what is left after its loop.
NeedsFinalFlush_never(batch) == FALSE

\* if local_batch > 0 { ... *guard += local_batch }; lock_once always adds
\* its local_total, which is ITERATIONS_PER_THREAD >= 1.
NeedsFinalFlush(batch) == batch > 0

\* local_batch += 1 (lock_in_blocks) or local_total += 1 (lock_once), and the
\* tests that follow it: a full batch goes to the counter, the end of the loop
\* goes to the final flush.
TIncrement(t) ==
    /\ tpc[t] = "increment"
    /\ local_batch' = [local_batch EXCEPT ![t] = @ + 1]
    /\ iter' = [iter EXCEPT ![t] = @ + 1]
    /\ increments' = increments + 1
    /\ tpc' = [tpc EXCEPT ![t] =
                  IF strategy = "lock_in_blocks" /\ local_batch[t] + 1 = batch_size
                    THEN "lock"
                  ELSE IF iter[t] + 1 < iterations_per_thread THEN "increment"
                  ELSE IF NeedsFinalFlush(local_batch[t] + 1) THEN "lock"
                  ELSE "done"]
    /\ UNCHANGED <<strategy, thread_count, iterations_per_thread, batch_size,
                   counter, counter_lock, poisoned, c_main, c_i, current,
                   c_result, stores>>
    /\ UNCHANGED othersC

\* A lock that lets everyone in.
LockAvailable_always == TRUE

\* Mutex::lock blocks while another thread holds the guard.
LockAvailable == counter_lock = NoHolder

\* counter_clone.lock().expect("Mutex poisoned"): the thread gets the guard,
\* or panics with the message if the Mutex is poisoned.
TLock(t) ==
    /\ tpc[t] = "lock"
    /\ LockAvailable
    /\ IF LockFails(IF poisoned THEN Poisoned ELSE counter_lock)
          THEN /\ tpc' = [tpc EXCEPT ![t] = "panicked"]
               /\ UNCHANGED counter_lock
          ELSE /\ tpc' = [tpc EXCEPT ![t] = "read"]
               /\ counter_lock' = t
    /\ UNCHANGED <<strategy, thread_count, iterations_per_thread, batch_size,
                   counter, poisoned, c_main, c_i, iter, current, local_batch,
                   c_result, increments, stores>>
    /\ UNCHANGED othersC

\* *guard += ...: the read of the protected value.
TRead(t) ==
    /\ tpc[t] = "read"
    /\ current' = [current EXCEPT ![t] = counter]
    /\ tpc' = [tpc EXCEPT ![t] = "write"]
    /\ UNCHANGED <<strategy, thread_count, iterations_per_thread, batch_size,
                   counter, counter_lock, poisoned, c_main, c_i, iter,
                   local_batch, c_result, increments, stores>>
    /\ UNCHANGED othersC

\* What the guarded statement adds: 1, BLOCK_SIZE for a full batch, else
\* local_batch or local_total.
AddAmount(t) ==
    IF strategy = "locked_counter" THEN 1
    ELSE IF strategy = "lock_in_blocks" /\ local_batch[t] = batch_size THEN batch_size
    ELSE local_batch[t]

\* Whether the guarded statement is the one inside the loop of lock_in_blocks.
InLoopFlush(t) == strategy = "lock_in_blocks" /\ local_batch[t] = batch_size

\* *guard += ...: the write of the protected value; then local_batch = 0 after
\* a full batch, the guard is dropped, and the loop goes on or the thread ends.
TWrite(t) ==
    /\ tpc[t] = "write"
    /\ counter' = current[t] + AddAmount(t)
    /\ stores' = stores + 1
    /\ counter_lock' = NoHolder
    /\ IF strategy = "locked_counter"
          THEN /\ iter' = [iter EXCEPT ![t] = @ + 1]
               /\ increments' = increments + 1
               /\ tpc' = [tpc EXCEPT ![t] =
                             IF iter[t] + 1 < iterations_per_thread THEN "lock"
                             ELSE "done"]
               /\ UNCHANGED local_batch
          ELSE IF InLoopFlush(t)
          THEN /\ local_batch' = [local_batch EXCEPT ![t] = 0]
               /\ tpc' = [tpc EXCEPT ![t] =
                             IF iter[t] < iterations_per_thread THEN "increment"
                             ELSE IF NeedsFinalFlush(0) THEN "lock"
                             ELSE "done"]
               /\ UNCHANGED <<iter, increments>>
          ELSE /\ tpc' = [tpc EXCEPT ![t] = "done"]
               /\ UNCHANGED <<iter, increments, local_batch>>
    /\ UNCHANGED <<strategy, thread_count, iterations_per_thread, batch_size,
                   poisoned, c_main, c_i, current, c_result>>
    /\ UNCHANGED othersC

\* A thread panics while it holds the guard: the guard is dropped during the
\* unwinding, which poisons the Mutex.
TFail(t) ==
    /\ tpc[t] \in {"read", "write"}
    /\ counter_lock = t
    /\ tpc' = [tpc EXCEPT ![t] = "panicked"]
    /\ counter_lock' = NoHolder
    /\ poisoned' = TRUE
    /\ UNCHANGED <<strategy, thread_count, iterations_per_thread, batch_size,
                   counter, c_main, c_i, iter, current, local_batch, c_result,
                   increments, stores>>
    /\ UNCHANGED othersC

\* A join that does not wait for the thread.
JoinReady_any(t) == tpc[t] # "unspawned"

\* JoinHandle::join returns once the thread has ended.
JoinReady(t) == tpc[t] \in {"done", "panicked"}

\* for handle in handles { handle.join().expect("Thread panicked during
\* execution") }
CJoin ==
    /\ c_main = "join"
    /\ JoinReady(c_i)
    /\ IF tpc[c_i] = "panicked"
          THEN c_main' = "panicked" /\ UNCHANGED c_i
          ELSE IF c_i = thread_count
          THEN c_main' = "read" /\ UNCHANGED c_i
          ELSE c_main' = "join" /\ c_i' = c_i + 1
    /\ UNCHANGED <<strategy, thread_count, iterations_per_thread, batch_size,
                   counter, counter_lock, poisoned, tpc, iter, current,
                   local_batch, c_result, increments, stores>>
    /\ UNCHANGED othersC

\* counter.load(Ordering::Relaxed), or counter.lock().expect("Mutex poisoned")
\* and *guard: the value the call returns.
CReturn ==
    /\ c_main = "read"
    /\ (strategy \in MutexStrategies) => LockAvailable
    /\ IF strategy \in MutexStrategies /\ poisoned
          THEN c_main' = "panicked" /\ UNCHANGED c_result
          ELSE c_main' = "returned" /\ c_result' = counter
    /\ UNCHANGED <<strategy, thread_count, iterations_per_thread, batch_size,
                   counter, counter_lock, poisoned, c_i, tpc, iter, current,
                   local_batch, increments, stores>>
    /\ UNCHANGED othersC

NextC ==
    \/ CSpawn
    \/ \E t \in Threads : TLoad(t)
    \/ \E t \in Threads : TStore(t)
    \/ \E t \in Threads : TFetchAdd(t)
    \/ \E t \in Threads : TIncrement(t)
    \/ \E t \in Threads : TLock(t)
    \/ \E t \in Threads : TRead(t)
    \/ \E t \in Threads : TWrite(t)
    \/ CJoin
    \/ CReturn

(***************************************************************************)
(* atvd-12: readers and writers of a shared map under a Mutex or a RwLock. *)
(***************************************************************************)
\* Thread ids in spawn order: the readers, then the writers.
DbThreads == 0 .. (READERS + WRITERS - 1)

IsReader(t) == t < READERS

\* reader_id and writer_id of a thread.
RoleId(t) == IF IsReader(t) THEN t ELSE t - READERS

Keys == 0 .. (ACCOUNT_KEYS - 1)

\* initial_db: key -> key * 3 - 50
initial_db == [key \in Keys |-> key * 3 - 50]

\* writer_delta: writer_id + 1
writer_delta(writer_id) == writer_id + 1

RECURSIVE values_sum(_, _)
values_sum(m, n) == IF n = 0 THEN 0 ELSE m[n - 1] + values_sum(m, n - 1)

RECURSIVE writers_delta_sum(_)
writers_delta_sum(n) ==
    IF n = 0 THEN 0 ELSE (n - 1 + 1) * OPS_PER_WRITER + writers_delta_sum(n - 1)

\* expected_final_sum: the initial values plus (writer + 1) * OPS_PER_WRITER
\* for each writer.
expected_final_sum == values_sum(initial_db, ACCOUNT_KEYS) + writers_delta_sum(WRITERS)

\* Operations each thread performs.
OpsOf(t) == IF IsReader(t) THEN OPS_PER_READER ELSE OPS_PER_WRITER

\* The key an operation starts from: (reader_id * 7 + iter) % ACCOUNT_KEYS and
\* (writer_id * 11 + iter) % ACCOUNT_KEYS under the Mutex, 13 and 17 under
\* the RwLock.
KeyOf(t, i) ==
    LET stride == IF primitive = "Mutex"
                    THEN (IF IsReader(t) THEN 7 ELSE 11)
                    ELSE (IF IsReader(t) THEN 13 ELSE 17)
    IN  (RoleId(t) * stride + i) % ACCOUNT_KEYS

\* for offset in 0..4 { observed_sum += guard.get(&key).copied().unwrap_or(0) }
RECURSIVE observe(_, _, _)
observe(m, base, n) ==
    IF n = 0 THEN 0
    ELSE m[(base + (n - 1)) % ACCOUNT_KEYS] + observe(m, base, n - 1)

NoStats == [reads |-> 0, writes |-> 0, observed_sum |-> 0]

NoMetrics == [returned |-> FALSE, final_sum |-> 0, total_reads |-> 0,
              total_writes |-> 0, read_accumulator |-> 0]

InitD ==
    \E pr \in {"Mutex", "RwLock"} :
        /\ primitive = pr
        /\ db = initial_db
        /\ db_writer = NoHolder
        /\ db_readers = {}
        /\ db_poisoned = FALSE
        /\ db_failed = "none"
        /\ arrived = 0
        /\ d_main = "spawn"
        /\ d_i = 0
        /\ dpc = [t \in DbThreads |-> "unspawned"]
        /\ d_iter = [t \in DbThreads |-> 0]
        /\ d_current = [t \in DbThreads |-> 0]
        /\ stats = [t \in DbThreads |-> NoStats]
        /\ metrics = NoMetrics

\* The state of the atvd-12 model while another program is modelled.
IdleD ==
    /\ primitive = "none"
    /\ db = initial_db
    /\ db_writer = NoHolder
    /\ db_readers = {}
    /\ db_poisoned = FALSE
    /\ db_failed = "none"
    /\ arrived = 0
    /\ d_main = "idle"
    /\ d_i = 0
    /\ dpc = [t \in DbThreads |-> "unspawned"]
    /\ d_iter = [t \in DbThreads |-> 0]
    /\ d_current = [t \in DbThreads |-> 0]
    /\ stats = [t \in DbThreads |-> NoStats]
    /\ metrics = NoMetrics

\* for reader_id in 0..READERS { handles.push(thread::spawn(...)) }, then the
\* same for the writers.
DSpawn ==
    /\ d_main = "spawn"
    /\ dpc' = [dpc EXCEPT ![d_i] = "barrier"]
    /\ IF d_i + 1 < READERS + WRITERS
          THEN d_main' = "spawn" /\ d_i' = d_i + 1
          ELSE d_main' = "join" /\ d_i' = 0
    /\ UNCHANGED <<primitive, db, db_writer, db_readers, db_poisoned, db_failed,
                   arrived, d_iter, d_current, stats, metrics>>
    /\ UNCHANGED othersD

\* barrier_clone.wait(): the thread arrives.
DArrive(t) ==
    /\ dpc[t] = "barrier"
    /\ arrived' = arrived + 1
    /\ dpc' = [dpc EXCEPT ![t] = "waiting"]
    /\ UNCHANGED <<primitive, db, db_writer, db_readers, db_poisoned, db_failed,
                   d_main, d_i, d_iter, d_current, stats, metrics>>
    /\ UNCHANGED othersD

\* barrier_clone.wait() returns once READERS + WRITERS threads have arrived.
DPass(t) ==
    /\ dpc[t] = "waiting"
    /\ arrived = READERS + WRITERS
    /\ dpc' = [dpc EXCEPT ![t] = "acquire"]
    /\ UNCHANGED <<primitive, db, db_writer, db_readers, db_poisoned, db_failed,
                   arrived, d_main, d_i, d_iter, d_current, stats, metrics>>
    /\ UNCHANGED othersD

\* Whether the thread asks for shared access: read() on the RwLock.
WantsShared(t) == primitive = "RwLock" /\ IsReader(t)

\* A lock that lets everyone in.
CanAcquire_always(t) == TRUE

\* lock() and write() wait until nobody holds the lock; read() waits while a
\* writer holds it.
CanAcquire(t) ==
    IF WantsShared(t) THEN db_writer = NoHolder
    ELSE db_writer = NoHolder /\ db_readers = {}

\* A lock that no failure poisons.
Poisons_never(t) == FALSE

\* Whether the failure of a thread holding the lock poisons it: a Mutex is
\* poisoned by any holder, a RwLock only by a holder of the write guard.
Poisons(t) == ~WantsShared(t)

\* db_clone.lock() / read() / write() followed by expect: the thread gets its
\* guard, or panics with the message if the lock is poisoned.
DAcquire(t) ==
    /\ dpc[t] = "acquire"
    /\ CanAcquire(t)
    /\ IF LockFails(IF db_poisoned THEN Poisoned ELSE db_writer)
          THEN /\ dpc' = [dpc EXCEPT ![t] = "panicked"]
               /\ UNCHANGED <<db_writer, db_readers>>
          ELSE IF WantsShared(t)
          THEN /\ dpc' = [dpc EXCEPT ![t] = "section"]
               /\ db_readers' = db_readers \cup {t}
               /\ UNCHANGED db_writer
          ELSE /\ dpc' = [dpc EXCEPT ![t] = IF IsReader(t) THEN "section" ELSE "entry"]
               /\ db_writer' = t
               /\ UNCHANGED db_readers
    /\ UNCHANGED <<primitive, db, db_poisoned, db_failed, arrived, d_main, d_i,
                   d_iter, d_current, stats, metrics>>
    /\ UNCHANGED othersD

\* Where a thread goes after an operation: the next iteration or its end.
AfterOp(t) == IF d_iter[t] + 1 < OpsOf(t) THEN "acquire" ELSE "done"

\* The reader's guarded block: four values are added to observed_sum,
\* local_reads += 1, drop(guard).
DReadSection(t) ==
    /\ dpc[t] = "section"
    /\ stats' = [stats EXCEPT ![t].reads = @ + 1,
                              ![t].observed_sum = @ + observe(db, KeyOf(t, d_iter[t]), 4)]
    /\ db_readers' = db_readers \ {t}
    /\ db_writer' = IF db_writer = t THEN NoHolder ELSE db_writer
    /\ d_iter' = [d_iter EXCEPT ![t] = @ + 1]
    /\ dpc' = [dpc EXCEPT ![t] = AfterOp(t)]
    /\ UNCHANGED <<primitive, db, db_poisoned, db_failed, arrived, d_main, d_i,
                   d_current, metrics>>
    /\ UNCHANGED othersD

\* let entry = guard.entry(key).or_insert(0); *entry += ...: the read of the
\* entry.
DEntryRead(t) ==
    /\ dpc[t] = "entry"
    /\ d_current' = [d_current EXCEPT ![t] = db[KeyOf(t, d_iter[t])]]
    /\ dpc' = [dpc EXCEPT ![t] = "update"]
    /\ UNCHANGED <<primitive, db, db_writer, db_readers, db_poisoned, db_failed,
                   arrived, d_main, d_i, d_iter, stats, metrics>>
    /\ UNCHANGED othersD

\* *entry += writer_delta(writer_id): the write of the entry; local_writes += 1;
\* drop(guard).
DEntryWrite(t) ==
    /\ dpc[t] = "update"
    /\ db' = [db EXCEPT ![KeyOf(t, d_iter[t])] = d_current[t] + writer_delta(RoleId(t))]
    /\ stats' = [stats EXCEPT ![t].writes = @ + 1]
    /\ db_writer' = NoHolder
    /\ d_iter' = [d_iter EXCEPT ![t] = @ + 1]
    /\ dpc' = [dpc EXCEPT ![t] = AfterOp(t)]
    /\ UNCHANGED <<primitive, db_readers, db_poisoned, db_failed, arrived,
                   d_main, d_i, d_current, metrics>>
    /\ UNCHANGED othersD

\* A thread panics while it holds a guard: the guard is dropped during the
\* unwinding, and the lock is poisoned if the guard was an exclusive one.
DFail(t) ==
    /\ dpc[t] \in {"section", "entry", "update"}
    /\ dpc' = [dpc EXCEPT ![t] = "failed"]
    /\ db_readers' = db_readers \ {t}
    /\ db_writer' = IF db_writer = t THEN NoHolder ELSE db_writer
    /\ db_poisoned' = (db_poisoned \/ Poisons(t))
    /\ db_failed' = IF WantsShared(t) /\ db_failed = "none" THEN "shared"
                    ELSE IF WantsShared(t) THEN db_failed
                    ELSE "exclusive"
    /\ UNCHANGED <<primitive, db, arrived, d_main, d_i, d_iter, d_current, stats,
                   metrics>>
    /\ UNCHANGED othersD

\* for handle in handles { let stats = handle.join().expect("Thread falhou");
\* metrics.total_reads += ...; ... }; after the last join the map is taken out
\* of the lock and summed into metrics.final_sum.
DJoin ==
    /\ d_main = "join"
    /\ dpc[d_i] \in {"done", "failed", "panicked"}
    /\ IF dpc[d_i] # "done"
          THEN /\ d_main' = "panicked"
               /\ UNCHANGED <<d_i, metrics>>
          ELSE /\ d_main' = IF d_i + 1 < READERS + WRITERS THEN "join" ELSE "returned"
               /\ d_i' = IF d_i + 1 < READERS + WRITERS THEN d_i + 1 ELSE 0
               /\ metrics' =
                    [returned |-> ~(d_i + 1 < READERS + WRITERS),
                     final_sum |-> IF d_i + 1 < READERS + WRITERS THEN 0
                                   ELSE values_sum(db, ACCOUNT_KEYS),
                     total_reads |-> metrics.total_reads + stats[d_i].reads,
                     total_writes |-> metrics.total_writes + stats[d_i].writes,
                     read_accumulator |->
                         metrics.read_accumulator + stats[d_i].observed_sum]
    /\ UNCHANGED <<primitive, db, db_writer, db_readers, db_poisoned, db_failed,
                   arrived, dpc, d_iter, d_current, stats>>
    /\ UNCHANGED othersD

NextD ==
    \/ DSpawn
    \/ \E t \in DbThreads : DArrive(t)
    \/ \E t \in DbThreads : DPass(t)
    \/ \E t \in DbThreads : DAcquire(t)
    \/ \E t \in DbThreads : DReadSection(t)
    \/ \E t \in DbThreads : DEntryRead(t)
    \/ \E t \in DbThreads : DEntryWrite(t)
    \/ DJoin

(***************************************************************************)
(* atvd-11: naive_threads_per_task.                                        *)
(***************************************************************************)
InitN ==
    \E n \in 0 .. MaxTasks :
        /\ n_tasks = build_tasks(n, BLOCK_SIZE)
        /\ n_dataset = generate_data(n * BLOCK_SIZE)
        /\ n_main = IF n = 0 THEN "join" ELSE "spawn"
        /\ n_i = 1
        /\ npc = [k \in 1 .. n |-> "unspawned"]
        /\ n_value = [k \in 1 .. n |-> 0]
        /\ n_total = 0

\* The state of the model of naive_threads_per_task while another program is
\* modelled.
IdleN ==
    /\ n_tasks = <<>>
    /\ n_dataset = <<>>
    /\ n_main = "idle"
    /\ n_i = 0
    /\ npc = <<>>
    /\ n_value = <<>>
    /\ n_total = 0

\* for (task_idx, &(start, end)) in tasks.iter().enumerate() {
\* handles.push(thread::spawn(...)) }
NSpawn ==
    /\ n_main = "spawn"
    /\ npc' = [npc EXCEPT ![n_i] = "sum"]
    /\ IF n_i = Len(n_tasks)
          THEN n_main' = "join" /\ n_i' = 1
          ELSE n_main' = "spawn" /\ n_i' = n_i + 1
    /\ UNCHANGED <<n_tasks, n_dataset, n_value, n_total>>
    /\ UNCHANGED othersN

\* The dedicated thread: data_clone[start..end].iter().map(...).sum::<i64>()
NSum(k) ==
    /\ npc[k] = "sum"
    /\ n_value' = [n_value EXCEPT ![k] = slice_sum(n_dataset, n_tasks[k][1], n_tasks[k][2])]
    /\ n_dataset' = DataAfterSum(n_dataset, n_tasks[k][1], n_tasks[k][2])
    /\ npc' = [npc EXCEPT ![k] = "done"]
    /\ UNCHANGED <<n_tasks, n_main, n_i, n_total>>
    /\ UNCHANGED othersN

\* for handle in handles { total += handle.join().expect(...) }
NJoin ==
    /\ n_main = "join"
    /\ n_i <= Len(n_tasks)
    /\ npc[n_i] = "done"
    /\ n_total' = n_total + n_value[n_i]
    /\ n_i' = n_i + 1
    /\ UNCHANGED <<n_tasks, n_dataset, n_main, npc, n_value>>
    /\ UNCHANGED othersN

\* ExecutionResult { total_sum: total }
NReturn ==
    /\ n_main = "join"
    /\ n_i > Len(n_tasks)
    /\ n_main' = "done"
    /\ UNCHANGED <<n_tasks, n_dataset, n_i, npc, n_value, n_total>>
    /\ UNCHANGED othersN

NextN ==
    \/ NSpawn
    \/ \E k \in 1 .. Len(n_tasks) : NSum(k)
    \/ NJoin
    \/ NReturn

(***************************************************************************)
(* atvd-7: barrier_two_phase.                                              *)
(***************************************************************************)
\* The threads a barrier is built for.
BThreads == 1 .. MaxBarrierThreads

InitB ==
    \E tc \in 1 .. MaxBarrierThreads :
        /\ b_thread_count = tc
        /\ phase1_counter = 0
        /\ violation = FALSE
        /\ b_count = 0
        /\ b_generation = 0
        /\ b_seen = [t \in BThreads |-> 0]
        /\ b_main = "spawn"
        /\ b_i = 1
        /\ bpc = [t \in BThreads |-> "unspawned"]
        /\ phase2_started = [t \in BThreads |-> NoHolder]
        /\ b_result = FALSE

\* The state of the barrier model while another program is modelled.
IdleB ==
    /\ b_thread_count = 0
    /\ phase1_counter = 0
    /\ violation = FALSE
    /\ b_count = 0
    /\ b_generation = 0
    /\ b_seen = [t \in BThreads |-> 0]
    /\ b_main = "idle"
    /\ b_i = 0
    /\ bpc = [t \in BThreads |-> "unspawned"]
    /\ phase2_started = [t \in BThreads |-> NoHolder]
    /\ b_result = FALSE

\* for id in 0..thread_count { handles.push(thread::spawn(...)) }
BSpawn ==
    /\ b_main = "spawn"
    /\ bpc' = [bpc EXCEPT ![b_i] = "phase1"]
    /\ IF b_i = b_thread_count
          THEN b_main' = "join" /\ b_i' = 1
          ELSE b_main' = "spawn" /\ b_i' = b_i + 1
    /\ UNCHANGED <<b_thread_count, phase1_counter, violation, b_count,
                   b_generation, b_seen, phase2_started, b_result>>
    /\ UNCHANGED othersB

\* let done = counter_clone.fetch_add(1, Ordering::SeqCst) + 1
BPhase1(t) ==
    /\ bpc[t] = "phase1"
    /\ phase1_counter' = phase1_counter + 1
    /\ bpc' = [bpc EXCEPT ![t] = "wait"]
    /\ UNCHANGED <<b_thread_count, violation, b_count, b_generation, b_seen,
                   b_main, b_i, phase2_started, b_result>>
    /\ UNCHANGED othersB

\* A barrier built for one thread less.
BarrierSize_short == b_thread_count - 1

\* Barrier::new(thread_count)
BarrierSize == b_thread_count

\* barrier_clone.wait(), the arrival: the thread that completes the count
\* releases the generation and goes on as the leader, any other thread waits
\* for the generation to change.
BWait(t) ==
    /\ bpc[t] = "wait"
    /\ IF b_count + 1 >= BarrierSize
          THEN /\ b_count' = 0
               /\ b_generation' = b_generation + 1
               /\ bpc' = [bpc EXCEPT ![t] = "check"]
               /\ UNCHANGED b_seen
          ELSE /\ b_count' = b_count + 1
               /\ b_seen' = [b_seen EXCEPT ![t] = b_generation]
               /\ bpc' = [bpc EXCEPT ![t] = "blocked"]
               /\ UNCHANGED b_generation
    /\ UNCHANGED <<b_thread_count, phase1_counter, violation, b_main, b_i,
                   phase2_started, b_result>>
    /\ UNCHANGED othersB

\* barrier_clone.wait() returns in a thread that was waiting.
BRelease(t) ==
    /\ bpc[t] = "blocked"
    /\ b_generation # b_seen[t]
    /\ bpc' = [bpc EXCEPT ![t] = "check"]
    /\ UNCHANGED <<b_thread_count, phase1_counter, violation, b_count,
                   b_generation, b_seen, b_main, b_i, phase2_started, b_result>>
    /\ UNCHANGED othersB

\* if counter_clone.load(Ordering::SeqCst) < thread_count {
\* violation_clone.store(true, Ordering::SeqCst) }, then phase 2.
BCheck(t) ==
    /\ bpc[t] = "check"
    /\ violation' = (violation \/ phase1_counter < b_thread_count)
    /\ phase2_started' = [phase2_started EXCEPT ![t] = phase1_counter]
    /\ bpc' = [bpc EXCEPT ![t] = "done"]
    /\ UNCHANGED <<b_thread_count, phase1_counter, b_count, b_generation,
                   b_seen, b_main, b_i, b_result>>
    /\ UNCHANGED othersB

\* for handle in handles { handle.join().expect(...) }
BJoin ==
    /\ b_main = "join"
    /\ bpc[b_i] = "done"
    /\ IF b_i = b_thread_count
          THEN b_main' = "load" /\ UNCHANGED b_i
          ELSE b_main' = "join" /\ b_i' = b_i + 1
    /\ UNCHANGED <<b_thread_count, phase1_counter, violation, b_count,
                   b_generation, b_seen, bpc, phase2_started, b_result>>
    /\ UNCHANGED othersB

\* !violation.load(Ordering::SeqCst)
BReturn ==
    /\ b_main = "load"
    /\ b_result' = ~violation
    /\ b_main' = "returned"
    /\ UNCHANGED <<b_thread_count, phase1_counter, violation, b_count,
                   b_generation, b_seen, b_i, bpc, phase2_started>>
    /\ UNCHANGED othersB

NextB ==
    \/ BSpawn
    \/ \E t \in BThreads : BPhase1(t)
    \/ \E t \in BThreads : BWait(t)
    \/ \E t \in BThreads : BRelease(t)
    \/ \E t \in BThreads : BCheck(t)
    \/ BJoin
    \/ BReturn

(***************************************************************************)
(* main of atvd-11, atvd-9 and atvd-12: the outputs of the runs against    *)
(* the reference.                                                          *)
(***************************************************************************)
\* The totals a run can return here.
Totals == 0 .. MaxTotal

\* The comparisons: naive_threads_per_task and run_with_thread_pool in
\* atvd-11, parallel_sum in atvd-9, run_with_rwlock in atvd-12.
CheckKinds == {"naive", "pool", "parallel_sum", "rwlock"}

\* Whether main asserts the flag (atvd-11, atvd-12) or only reports it
\* (atvd-9: is_correct goes into the table).
Asserted(kind) == kind # "parallel_sum"

InitV ==
    \E kind \in CheckKinds, reference \in Totals :
        /\ check_kind = kind
        /\ baseline = reference
        /\ v_outputs = <<>>
        /\ v_pc = "runs"
        /\ v_correct = FALSE

\* The state of the comparison while another program is modelled.
IdleV ==
    /\ check_kind = "none"
    /\ baseline = 0
    /\ v_outputs = <<>>
    /\ v_pc = "idle"
    /\ v_correct = FALSE

\* measure_runs: outputs.push(result), for run in 0..RUNS; a run returns the
\* right total or another one.
VRun ==
    /\ v_pc = "runs"
    /\ \E out \in Totals : v_outputs' = Append(v_outputs, out)
    /\ v_pc' = IF Len(v_outputs) + 1 < RUNS THEN "runs" ELSE "check"
    /\ UNCHANGED <<check_kind, baseline, v_correct>>
    /\ UNCHANGED othersV

\* A comparison that looks at every run.
runs_checked_all(outs) == outs

\* outputs.iter().skip(1): the runs whose output is compared.
runs_checked(outs) == skip(outs, 1)

\* .all(|res| res.total_sum == baseline_sum)
all_equal(outs, reference) == \A i \in 1 .. Len(outs) : outs[i] = reference

\* let correct = outputs.iter().skip(1).all(...); assert!(correct, ...) where
\* main asserts.
VCheck ==
    /\ v_pc = "check"
    /\ v_correct' = all_equal(runs_checked(v_outputs), baseline)
    /\ v_pc' = IF Asserted(check_kind) /\ ~v_correct' THEN "panicked" ELSE "done"
    /\ UNCHANGED <<check_kind, baseline, v_outputs>>
    /\ UNCHANGED othersV

NextV ==
    \/ VRun
    \/ VCheck

(***************************************************************************)
(* atvd-9: generate_vector, arithmetic_series_sum, sequential_sum,         *)
(* parallel_sum.                                                           *)
(***************************************************************************)
\* Whether a value fits an i64 (I64_BITS bits, two's complement).
fits_i64(x) == 0 - Pow2(I64_BITS - 1) <= x /\ x < Pow2(I64_BITS - 1)

\* The low I64_BITS bits of x read as a two's complement number.
wrap_i64(x) ==
    LET m == x % Pow2(I64_BITS)
    IN  IF m >= Pow2(I64_BITS - 1) THEN m - Pow2(I64_BITS) ELSE m

\* The result of an i64 operation whose exact value is x: x when it fits;
\* otherwise a panic where the build checks overflow, the wrapped value where
\* it does not.
arith(x) ==
    IF fits_i64(x) THEN [ok |-> TRUE, value |-> x]
    ELSE IF overflow_checks THEN [ok |-> FALSE, value |-> 0]
    ELSE [ok |-> TRUE, value |-> wrap_i64(x)]

\* i64 division: the quotient truncated towards zero.
div_i64(a, b) == IF a >= 0 THEN a \div b ELSE 0 - ((0 - a) \div b)

\* generate_vector: (0..len as i64).collect()
generate_vector(len) == [idx \in 0 .. (len - 1) |-> idx]

\* A closed form that is off by one term.
series_product_short(last_value) == last_value * (last_value - 1)

\* last_value * (last_value + 1), the intermediate product of the closed form.
series_product(last_value) == last_value * (last_value + 1)

\* arithmetic_series_sum: 0 below zero, else last_value * (last_value + 1) / 2.
arithmetic_series_sum(last_value) ==
    IF last_value < 0 THEN [ok |-> TRUE, value |-> 0]
    ELSE LET product == arith(series_product(last_value))
         IN  [ok |-> product.ok, value |-> div_i64(product.value, 2)]

\* data.iter().copied().sum() over data[start..end].
range_sum(start, end) == arith(slice_sum(generate_vector(vector_len), start, end))

\* let actual_threads = threads.min(len.max(1))
actual_threads ==
    LET floor == IF vector_len > 1 THEN vector_len ELSE 1
    IN  IF sum_threads < floor THEN sum_threads ELSE floor

\* A chunk one element short of the ceiling.
chunk_size_floor == vector_len \div actual_threads

\* let chunk_size = (len + actual_threads - 1) / actual_threads
chunk_size == (vector_len + actual_threads - 1) \div actual_threads

\* The handles vector in index order.
HandleIds == 1 .. MaxSumThreads

InitS ==
    \E len \in 0 .. MaxVectorLen, threads \in 1 .. MaxSumThreads, checks \in BOOLEAN :
        /\ vector_len = len
        /\ sum_threads = threads
        /\ overflow_checks = checks
        /\ expected_sum = 0
        /\ sequential_result = 0
        /\ s_main = "oracle"
        /\ chunk_idx = 0
        /\ handles = <<>>
        /\ hpc = [h \in HandleIds |-> "unspawned"]
        /\ partials = [h \in HandleIds |-> 0]
        /\ join_idx = 0
        /\ s_total = 0
        /\ inline_range = <<>>
        /\ parallel_result = 0
        /\ total_matches = FALSE

\* The state of atvd-9 while another program is modelled.
IdleS ==
    /\ vector_len = 0
    /\ sum_threads = 0
    /\ overflow_checks = FALSE
    /\ expected_sum = 0
    /\ sequential_result = 0
    /\ s_main = "idle"
    /\ chunk_idx = 0
    /\ handles = <<>>
    /\ hpc = [h \in HandleIds |-> "unspawned"]
    /\ partials = [h \in HandleIds |-> 0]
    /\ join_idx = 0
    /\ s_total = 0
    /\ inline_range = <<>>
    /\ parallel_result = 0
    /\ total_matches = FALSE

\* let expected_sum = arithmetic_series_sum(vector_len as i64 - 1)
SOracle ==
    /\ s_main = "oracle"
    /\ LET r == arithmetic_series_sum(vector_len - 1)
       IN  /\ expected_sum' = r.value
           /\ s_main' = IF r.ok THEN "sequential" ELSE "panicked"
    /\ UNCHANGED <<vector_len, sum_threads, overflow_checks, sequential_result,
                   chunk_idx, handles, hpc, partials, join_idx, s_total,
                   inline_range, parallel_result, total_matches>>
    /\ UNCHANGED othersS

\* measure_runs(|run| sequential_sum(&data, run == 0)); sequential_result is
\* the output of the last run.
SSequential ==
    /\ s_main = "sequential"
    /\ LET r == range_sum(0, vector_len)
       IN  /\ sequential_result' = r.value
           /\ s_main' = IF r.ok THEN "parallel" ELSE "panicked"
    /\ UNCHANGED <<vector_len, sum_threads, overflow_checks, expected_sum,
                   chunk_idx, handles, hpc, partials, join_idx, s_total,
                   inline_range, parallel_result, total_matches>>
    /\ UNCHANGED othersS

\* parallel_sum up to the spawning loop: with actual_threads <= 1 it returns
\* data.iter().copied().sum() at once.
SStart ==
    /\ s_main = "parallel"
    /\ IF actual_threads <= 1
          THEN LET r == range_sum(0, vector_len)
               IN  /\ parallel_result' = r.value
                   /\ inline_range' = <<[start |-> 0, end |-> vector_len]>>
                   /\ s_main' = IF r.ok THEN "confere" ELSE "panicked"
          ELSE /\ s_main' = "spawn"
               /\ UNCHANGED <<parallel_result, inline_range>>
    /\ UNCHANGED <<vector_len, sum_threads, overflow_checks, expected_sum,
                   sequential_result, chunk_idx, handles, hpc, partials,
                   join_idx, s_total, total_matches>>
    /\ UNCHANGED othersS

\* for chunk_idx in 0..actual_threads { let start = chunk_idx * chunk_size;
\* if start >= len { break; } let end = (start + chunk_size).min(len);
\* handles.push(thread::spawn(...)) }
SSpawn ==
    /\ s_main = "spawn"
    /\ LET start == chunk_idx * chunk_size
           end == IF start + chunk_size < vector_len THEN start + chunk_size
                  ELSE vector_len
       IN  IF chunk_idx < actual_threads /\ start < vector_len
             THEN /\ handles' = Append(handles, [start |-> start, end |-> end])
                  /\ hpc' = [hpc EXCEPT ![Len(handles) + 1] = "running"]
                  /\ chunk_idx' = chunk_idx + 1
                  /\ UNCHANGED s_main
             ELSE /\ s_main' = "join"
                  /\ UNCHANGED <<handles, hpc, chunk_idx>>
    /\ UNCHANGED <<vector_len, sum_threads, overflow_checks, expected_sum,
                   sequential_result, partials, join_idx, s_total,
                   inline_range, parallel_result, total_matches>>
    /\ UNCHANGED othersS

\* The spawned thread: data_clone[start..end].iter().copied().sum::<i64>()
SSum(h) ==
    /\ hpc[h] = "running"
    /\ LET r == range_sum(handles[h].start, handles[h].end)
       IN  /\ partials' = [partials EXCEPT ![h] = r.value]
           /\ hpc' = [hpc EXCEPT ![h] = IF r.ok THEN "done" ELSE "panicked"]
    /\ UNCHANGED <<vector_len, sum_threads, overflow_checks, expected_sum,
                   sequential_result, s_main, chunk_idx, handles, join_idx,
                   s_total, inline_range, parallel_result, total_matches>>
    /\ UNCHANGED othersS

\* for handle in handles { total += handle.join().expect(...) }; total
SJoin ==
    /\ s_main = "join"
    /\ IF join_idx < Len(handles)
          THEN /\ hpc[join_idx + 1] \in {"done", "panicked"}
               /\ LET r == arith(s_total + partials[join_idx + 1])
                  IN  IF hpc[join_idx + 1] = "done" /\ r.ok
                        THEN /\ s_total' = r.value
                             /\ join_idx' = join_idx + 1
                             /\ UNCHANGED s_main
                        ELSE /\ s_main' = "panicked"
                             /\ UNCHANGED <<s_total, join_idx>>
               /\ UNCHANGED parallel_result
          ELSE /\ parallel_result' = s_total
               /\ s_main' = "confere"
               /\ UNCHANGED <<s_total, join_idx>>
    /\ UNCHANGED <<vector_len, sum_threads, overflow_checks, expected_sum,
                   sequential_result, chunk_idx, handles, hpc, partials,
                   inline_range, total_matches>>
    /\ UNCHANGED othersS

\* let total_matches = sequential_result == expected_sum; it is printed as
\* 'confere'.
SConfere ==
    /\ s_main = "confere"
    /\ total_matches' = (sequential_result = expected_sum)
    /\ s_main' = "done"
    /\ UNCHANGED <<vector_len, sum_threads, overflow_checks, expected_sum,
                   sequential_result, chunk_idx, handles, hpc, partials,
                   join_idx, s_total, inline_range, parallel_result>>
    /\ UNCHANGED othersS

NextS ==
    \/ SOracle
    \/ SSequential
    \/ SStart
    \/ SSpawn
    \/ \E h \in HandleIds : SSum(h)
    \/ SJoin
    \/ SConfere

(***************************************************************************)
(* atvd-10: XorShift64, run_monte_carlo, estimate_pi_parallel.             *)
(***************************************************************************)
\* A u64 is the set of the positions of its 1 bits, bit 0 the lowest.
Bits == 0 .. (U64_BITS - 1)

\* The u64 written as 16 hexadecimal digits, the highest first.
from_hex(digits) ==
    {i \in Bits : (digits[16 - (i \div 4)] \div Pow2(i % 4)) % 2 = 1}

\* id as u64, for an id below 2^16.
from_usize(n) == {i \in Bits : i < 16 /\ (n \div Pow2(i)) % 2 = 1}

\* 0x9E3779B97F4A7C15
SeedBase == from_hex(<<9, 14, 3, 7, 7, 9, 11, 9, 7, 15, 4, 10, 7, 12, 1, 5>>)

\* 0xA511E9B7C3D2_1234
SeedForZero == from_hex(<<10, 5, 1, 1, 14, 9, 11, 7, 12, 3, 13, 2, 1, 2, 3, 4>>)

ZeroU64 == {}

bit(x, i) == IF i \in x THEN 1 ELSE 0

\* The bits of a + b from position i on, with the carry into position i.
RECURSIVE add_from(_, _, _, _)
add_from(a, b, i, carry) ==
    IF i = U64_BITS THEN {}
    ELSE LET s == bit(a, i) + bit(b, i) + carry
         IN  (IF s % 2 = 1 THEN {i} ELSE {}) \cup add_from(a, b, i + 1, s \div 2)

\* a.wrapping_add(b): the sum modulo 2^64.
wrapping_add(a, b) == add_from(a, b, 0, 0)

\* x ^ y, x << k, x >> k on a u64.
xor(x, y) == {i \in Bits : (i \in x) # (i \in y)}

shl(x, k) == {i \in Bits : i >= k /\ (i - k) \in x}

shr(x, k) == {i \in Bits : (i + k) \in x}

\* XorShift64::new: a zero seed is replaced.
new(seed) == IF seed = ZeroU64 THEN SeedForZero ELSE seed

\* XorShift64::next_u64: x ^= x << 13; x ^= x >> 7; x ^= x << 17; the value
\* returned is the new state.
next_u64(state) ==
    LET a == xor(state, shl(state, SHIFT_LEFT_A))
        b == xor(a, shr(a, SHIFT_RIGHT_B))
    IN  xor(b, shl(b, SHIFT_LEFT_C))

\* next_f64: (value as f64) / (u64::MAX as f64), kept to its FRAC_BITS leading
\* bits: the numerator of a fraction over 2^FRAC_BITS.
RECURSIVE leading(_, _)
leading(value, n) ==
    IF n = 0 THEN 0
    ELSE 2 * leading(value, n - 1) + bit(value, U64_BITS - n)

as_fraction(value) == leading(value, FRAC_BITS)

\* dx * dx + dy * dy <= 0.25 with dx = x - 0.5 and dy = y - 0.5, all scaled
\* by 2^(FRAC_BITS + 1).
in_circle(x, y) ==
    LET one == Pow2(FRAC_BITS)
        dx == 2 * x - one
        dy == 2 * y - one
    IN  dx * dx + dy * dy <= one * one

\* The seed of run_monte_carlo(samples, seed_offset, ..).
seed_of(id) == wrapping_add(SeedBase, from_usize(id))

\* The count run_monte_carlo returns from a generator state after n samples.
RECURSIVE count_inside(_, _)
count_inside(state, n) ==
    IF n = 0 THEN 0
    ELSE LET s1 == next_u64(state)
             s2 == next_u64(s1)
         IN  (IF in_circle(as_fraction(s1), as_fraction(s2)) THEN 1 ELSE 0)
             + count_inside(s2, n - 1)

PiThreads == 0 .. (MaxPiThreads - 1)

NoResult == [total_samples |-> 0, inside_circle |-> 0]

InitE ==
    \E k \in 0 .. MaxSamples, tc \in 1 .. MaxPiThreads :
        /\ samples_per_thread = k
        /\ pi_threads = tc
        /\ e_main = "start"
        /\ e_i = 0
        /\ epc = [t \in PiThreads |-> "unspawned"]
        /\ generator = [t \in PiThreads |-> ZeroU64]
        /\ e_idx = [t \in PiThreads |-> 0]
        /\ inside = [t \in PiThreads |-> 0]
        /\ e_total_samples = 0
        /\ e_inside = 0
        /\ pi_result = NoResult
        /\ finish_order = <<>>

\* The state of atvd-10 while another program is modelled.
IdleE ==
    /\ samples_per_thread = 0
    /\ pi_threads = 0
    /\ e_main = "idle"
    /\ e_i = 0
    /\ epc = [t \in PiThreads |-> "unspawned"]
    /\ generator = [t \in PiThreads |-> ZeroU64]
    /\ e_idx = [t \in PiThreads |-> 0]
    /\ inside = [t \in PiThreads |-> 0]
    /\ e_total_samples = 0
    /\ e_inside = 0
    /\ pi_result = NoResult
    /\ finish_order = <<>>

\* if threads <= 1 { return run_monte_carlo(samples_per_thread, 0, ..) }: the
\* calling thread runs it itself, with seed offset 0.
EStart ==
    /\ e_main = "start"
    /\ IF pi_threads <= 1
          THEN /\ e_main' = "inline"
               /\ epc' = [epc EXCEPT ![0] = "new"]
          ELSE /\ e_main' = "spawn"
               /\ UNCHANGED epc
    /\ UNCHANGED <<samples_per_thread, pi_threads, e_i, generator, e_idx,
                   inside, e_total_samples, e_inside, pi_result, finish_order>>
    /\ UNCHANGED othersE

\* (0..threads).map(|id| thread::spawn(move || run_monte_carlo(.., id as u64, ..)))
ESpawn ==
    /\ e_main = "spawn"
    /\ epc' = [epc EXCEPT ![e_i] = "new"]
    /\ IF e_i + 1 < pi_threads
          THEN e_i' = e_i + 1 /\ e_main' = "spawn"
          ELSE e_i' = 0 /\ e_main' = "join"
    /\ UNCHANGED <<samples_per_thread, pi_threads, generator, e_idx, inside,
                   e_total_samples, e_inside, pi_result, finish_order>>
    /\ UNCHANGED othersE

\* One generator that every thread uses.
GeneratorOf_shared(t) == 0

\* let mut generator = XorShift64::new(..): a local of run_monte_carlo, one
\* for each call.
GeneratorOf(t) == t

\* let mut generator = XorShift64::new(0x9E37..15u64.wrapping_add(seed_offset));
\* let mut inside = 0usize; with no samples the loop is over at once.
ENew(t) ==
    /\ epc[t] = "new"
    /\ generator' = [generator EXCEPT ![GeneratorOf(t)] = new(seed_of(t))]
    /\ epc' = [epc EXCEPT ![t] = IF samples_per_thread > 0 THEN "loop" ELSE "done"]
    /\ finish_order' = IF samples_per_thread > 0 THEN finish_order
                       ELSE Append(finish_order, t)
    /\ UNCHANGED <<samples_per_thread, pi_threads, e_main, e_i, e_idx, inside,
                   e_total_samples, e_inside, pi_result>>
    /\ UNCHANGED othersE

\* One iteration of for idx in 0..samples: x and y are drawn and the point is
\* counted if it is in the circle; after the last one the result is returned.
ESample(t) ==
    /\ epc[t] = "loop"
    /\ LET s1 == next_u64(generator[GeneratorOf(t)])
           s2 == next_u64(s1)
       IN  /\ generator' = [generator EXCEPT ![GeneratorOf(t)] = s2]
           /\ inside' = [inside EXCEPT ![t] =
                           IF in_circle(as_fraction(s1), as_fraction(s2))
                             THEN @ + 1 ELSE @]
    /\ e_idx' = [e_idx EXCEPT ![t] = @ + 1]
    /\ epc' = [epc EXCEPT ![t] =
                 IF e_idx[t] + 1 < samples_per_thread THEN "loop" ELSE "done"]
    /\ finish_order' = IF e_idx[t] + 1 < samples_per_thread THEN finish_order
                       ELSE Append(finish_order, t)
    /\ UNCHANGED <<samples_per_thread, pi_threads, e_main, e_i,
                   e_total_samples, e_inside, pi_result>>
    /\ UNCHANGED othersE

\* for handle in handles { let result = handle.join().expect(..);
\* total_samples += result.total_samples; inside += result.inside_circle; }
\* and after the last one the MonteCarloResult is returned.
EJoin ==
    /\ e_main = "join"
    /\ epc[e_i] = "done"
    /\ e_total_samples' = e_total_samples + samples_per_thread
    /\ e_inside' = e_inside + inside[e_i]
    /\ IF e_i + 1 < pi_threads
          THEN /\ e_i' = e_i + 1
               /\ UNCHANGED <<e_main, pi_result>>
          ELSE /\ e_i' = 0
               /\ e_main' = "returned"
               /\ pi_result' = [total_samples |-> e_total_samples',
                                inside_circle |-> e_inside']
    /\ UNCHANGED <<samples_per_thread, pi_threads, epc, generator, e_idx,
                   inside, finish_order>>
    /\ UNCHANGED othersE

\* The result of the run_monte_carlo that the calling thread ran itself.
EInlineReturn ==
    /\ e_main = "inline"
    /\ epc[0] = "done"
    /\ pi_result' = [total_samples |-> samples_per_thread,
                     inside_circle |-> inside[0]]
    /\ e_main' = "returned"
    /\ UNCHANGED <<samples_per_thread, pi_threads, e_i, epc, generator, e_idx,
                   inside, e_total_samples, e_inside, finish_order>>
    /\ UNCHANGED othersE

NextE ==
    \/ EStart
    \/ ESpawn
    \/ \E t \in PiThreads : ENew(t)
    \/ \E t \in PiThreads : ESample(t)
    \/ EJoin
    \/ EInlineReturn

\* atvd-11 alone, atvd-8 alone, the harness alone, the process boundary alone,
\* one counter strategy alone, atvd-12 alone.
Start11 == Init11 /\ Idle8 /\ IdleM /\ IdleP /\ IdleC /\ IdleD /\ IdleN /\ IdleB /\ IdleV /\ IdleS /\ IdleE

Spec11 == Start11 /\ [][Next11]_vars

Start8 == Init8 /\ Idle11 /\ IdleM /\ IdleP /\ IdleC /\ IdleD /\ IdleN /\ IdleB /\ IdleV /\ IdleS /\ IdleE

Spec8 == Start8 /\ [][Next8]_vars

\* atvd-11 with jobs that can fail.
NextFault11 ==
    \/ MSpawn
    \/ MDropResultTx
    \/ MSendTask
    \/ MSendNone
    \/ MRecvResult
    \/ MJoin
    \/ \E w \in Workers : WLock(w)
    \/ \E w \in Workers : WRecv(w)
    \/ \E w \in Workers : WUnlock(w)
    \/ \E w \in Workers : WMatch(w)
    \/ \E w \in Workers : WFail(w)

FaultSpec11 == Start11 /\ [][NextFault11]_vars

StartM == InitM /\ Idle11 /\ Idle8 /\ IdleP /\ IdleC /\ IdleD /\ IdleN /\ IdleB /\ IdleV /\ IdleS /\ IdleE

SpecMeasure == StartM /\ [][NextM]_vars

StartP == InitP /\ Idle11 /\ Idle8 /\ IdleM /\ IdleC /\ IdleD /\ IdleN /\ IdleB /\ IdleV /\ IdleS /\ IdleE

SpecInput == StartP /\ [][NextP]_vars

StartC == InitC /\ Idle11 /\ Idle8 /\ IdleM /\ IdleP /\ IdleD /\ IdleN /\ IdleB /\ IdleV /\ IdleS /\ IdleE

SpecCounter == StartC /\ [][NextC]_vars

StartD == InitD /\ Idle11 /\ Idle8 /\ IdleM /\ IdleP /\ IdleC /\ IdleN /\ IdleB /\ IdleV /\ IdleS /\ IdleE

SpecDb == StartD /\ [][NextD]_vars

\* Every program with a shared lock, with a thread that may fail while it
\* holds the lock.
StartLocks == Start11 \/ Start8 \/ StartC \/ StartD

NextLocks ==
    \/ Next11
    \/ Next8
    \/ NextC
    \/ NextD
    \/ \E w \in Workers : WFailLocked(w)
    \/ \E c \in Consumers : CFailLocked(c)
    \/ \E t \in Threads : TFail(t)
    \/ \E t \in DbThreads : DFail(t)

PoisonSpec == StartLocks /\ [][NextLocks]_vars

StartN == InitN /\ Idle11 /\ Idle8 /\ IdleM /\ IdleP /\ IdleC /\ IdleD /\ IdleB /\ IdleV /\ IdleS /\ IdleE

\* run_with_thread_pool and naive_threads_per_task, the two threaded ways over
\* the shared dataset.
SpecShared == (Start11 \/ StartN) /\ [][Next11 \/ NextN]_vars

StartB == InitB /\ Idle11 /\ Idle8 /\ IdleM /\ IdleP /\ IdleC /\ IdleD /\ IdleN /\ IdleV /\ IdleS /\ IdleE

SpecBarrier == StartB /\ [][NextB]_vars

StartV == InitV /\ Idle11 /\ Idle8 /\ IdleM /\ IdleP /\ IdleC /\ IdleD /\ IdleN /\ IdleB /\ IdleS /\ IdleE

SpecCheck == StartV /\ [][NextV]_vars

StartS == InitS /\ Idle11 /\ Idle8 /\ IdleM /\ IdleP /\ IdleC /\ IdleD /\ IdleN /\ IdleB /\ IdleV /\ IdleE

SpecSum == StartS /\ [][NextS]_vars

StartE == InitE /\ Idle11 /\ Idle8 /\ IdleM /\ IdleP /\ IdleC /\ IdleD /\ IdleN /\ IdleB /\ IdleV /\ IdleS

SpecPi == StartE /\ [][NextE]_vars

\* Any one of them runs.
Init == Start11 \/ Start8 \/ StartM \/ StartP \/ StartC \/ StartD \/ StartN \/ StartB \/ StartV \/ StartS \/ StartE

Next == Next11 \/ Next8 \/ NextM \/ NextP \/ NextC \/ NextD \/ NextN \/ NextB \/ NextV \/ NextS \/ NextE

Spec == Init /\ [][Next]_vars

\* atvd-11 under fair scheduling: every thread that can take a step eventually does.
FairSpec11 ==
    /\ Spec11
    /\ WF_vars(Main11)
    /\ \A w \in WorkerIds : WF_vars(w \in Workers /\ Worker11(w))

\* atvd-11 with jobs that can fail, under fair scheduling: a failure may or
\* may not happen, every thread that can go on eventually does.
FairFaultSpec11 ==
    /\ FaultSpec11
    /\ WF_vars(Main11)
    /\ \A w \in WorkerIds : WF_vars(w \in Workers /\ Worker11(w))

(***************************************************************************)
(* The claims.                                                             *)
(***************************************************************************)
TaskIds == DOMAIN dequeued

AllWorkersStopped == \A w \in Workers : wpc[w] \in {"done", "panicked"}

\* C1: in run_with_thread_pool every task sent on the job channel is dequeued
\* and processed exactly once, never twice, and by the time the workers have
\* stopped or the call has returned exactly N partial results were sent; the
\* calling thread never fails for want of a result.
C1_EachTaskExactlyOnce ==
    /\ main_pc # "idle" =>
         /\ \A k \in TaskIds : dequeued[k] <= 1 /\ processed[k] <= dequeued[k]
         /\ main_pc # "panicked"
         /\ (main_pc = "done" \/ (main_pc = "join" /\ AllWorkersStopped)) =>
               \A k \in TaskIds : dequeued[k] = 1 /\ processed[k] = 1

C1_Witness ==
    /\ main_pc = "done"
    /\ Len(tasks) >= 2
    /\ workers >= 2
    /\ \A k \in TaskIds : processed[k] = 1

\* C2: the total run_with_thread_pool returns equals the total
\* sequential_process returns on the same data and tasks.
C2_TotalEqualsSequential ==
    main_pc = "done" => total = sequential_process(data, tasks)

C2_Witness ==
    /\ main_pc = "done"
    /\ Len(tasks) >= 2
    /\ workers >= 2
    /\ total = sequential_process(data, tasks)
    /\ total # 0

\* C4: under fair scheduling every call of run_with_thread_pool returns, with
\* every worker stopped.
C4_PoolReturns ==
    <>(main_pc = "done" /\ \A w \in Workers : wpc[w] = "done")

C4_Witness ==
    /\ main_pc = "done"
    /\ \A w \in Workers : wpc[w] = "done"
    /\ workers >= 2
    /\ Len(result_q) = 0
    /\ Len(job_q) = 0

\* A termination signal is an entry the calling thread enqueued to stop a
\* worker: a None of atvd-11, a SENTINEL sent by the main thread of atvd-8.
IsSignal8(e) == e.ok /\ e.prod = MainThread

IsJob8(e) == e.ok /\ e.prod # MainThread

\* C3: every worker and every consumer dequeues at most one termination
\* signal, leaves its loop right after it, never leaves by the
\* channel-disconnected path, and has dequeued exactly one when it has stopped.
C3_OneSignalPerWorker ==
    /\ \A w \in Workers :
         /\ signals[w] <= 1
         /\ message[w].kind # "Err"
         /\ signals[w] = 1 =>
               message[w].kind = "None" /\ wpc[w] \in {"unlock", "match", "done"}
         /\ wpc[w] = "done" => signals[w] = 1
    /\ \A c \in Consumers :
         /\ sentinels_seen[c] <= 1
         /\ cmsg[c].ok \/ cmsg[c] = NoMessage8
         /\ sentinels_seen[c] = 1 =>
               IsSignal8(cmsg[c]) /\ cpc[c] \in {"unlock", "match", "done"}
         /\ cpc[c] = "done" => sentinels_seen[c] = 1

\* C5: a call of run_producer_consumer that has not returned can always take
\* a step (under fair scheduling it then returns): it never blocks for good.
C5_ProducerConsumerNeverStuck == pc_main \in {"idle", "done"} \/ ENABLED Next8

\* C6: when run_producer_consumer returns, produced == total_items,
\* consumed == total_items, sentinels == CONSUMER_COUNT and
\* deadlock_detected == false.
C6_ResultComplete ==
    result.returned =>
        /\ result.produced = total_items
        /\ result.consumed = total_items
        /\ result.sentinels = CONSUMER_COUNT
        /\ ~result.deadlock_detected

\* The number of items producer p has enqueued so far.
SentBy(p) == item_idx[p] + (IF ppc[p] = "count" THEN 1 ELSE 0)

\* How often item idx of producer p is pending in the queue.
Pending(p, idx) ==
    Cardinality({k \in 1 .. Len(queue) :
                    queue[k].prod = p /\ queue[k].idx = idx})

C8_SignalsAfterJobs ==
    /\ main_pc # "idle" =>
         /\ (\E k \in 1 .. Len(job_q) : job_q[k].kind = "None") =>
               main_pc \notin {"spawn", "drop_result_tx", "send_tasks"}
         /\ \A j, k \in 1 .. Len(job_q) :
               (j < k /\ job_q[j].kind = "None") => job_q[k].kind = "None"
         /\ \A w \in Workers : wpc[w] = "done" =>
               /\ main_pc \notin {"spawn", "drop_result_tx", "send_tasks"}
               /\ \A k \in 1 .. Len(job_q) : job_q[k].kind = "None"
    /\ pc_main # "idle" =>
         /\ (\E k \in 1 .. Len(queue) : IsSignal8(queue[k])) =>
               pc_main \notin {"spawn_producers", "spawn_consumers", "join_producers"}
         /\ \A j, k \in 1 .. Len(queue) :
               (j < k /\ IsSignal8(queue[j])) => IsSignal8(queue[k])
         /\ \A c \in Consumers : cpc[c] = "done" =>
               /\ \A p \in Producers : ppc[p] = "done"
               /\ \A k \in 1 .. Len(queue) : IsSignal8(queue[k])

C10_QueueWithinCapacity == Len(queue) <= QUEUE_CAPACITY

\* The queue is full, a real item and a sentinel among its entries.
C10_Witness ==
    /\ Len(queue) = QUEUE_CAPACITY
    /\ \E k \in 1 .. Len(queue) : IsSignal8(queue[k])
    /\ \E k \in 1 .. Len(queue) : IsJob8(queue[k])

(***************************************************************************)
(* C11..C20.                                                               *)
(***************************************************************************)
\* The calling thread of run_with_thread_pool is about to send on the job channel.
MainAtJobSend == main_pc \in {"send_tasks", "send_none"}

\* C11: the job queue of run_with_thread_pool is bounded by a fixed capacity:
\* its pending entries never number more than the capacity (the repository's
\* QUEUE_CAPACITY), and the calling thread cannot complete a send while the
\* queue holds that many entries.
C11_JobQueueBounded ==
    /\ Len(job_q) <= QUEUE_CAPACITY
    /\ (MainAtJobSend /\ Len(job_q) >= QUEUE_CAPACITY) => ~ENABLED Main11

\* What the job channel does: every entry of the call, the tasks and the
\* signals, can be pending at once, and a send is never held back.
C11_JobQueueHoldsWholeCall ==
    /\ Len(job_q) <= Len(tasks) + workers
    /\ MainAtJobSend => ENABLED Main11

\* C12: a producer of run_producer_consumer that waits in send on a full queue
\* is never left waiting for good: some thread can still take a step (and
\* with it, in time, a consumer frees a slot and the send completes).
C12_BlockedSendCompletes ==
    (\E p \in Producers : ppc[p] = "send" /\ ~SendReady(queue)) => ENABLED Next8

\* The first half of C12: a send completes only on a queue below capacity.
C12_SendWaitsWhileFull ==
    [][\A p \in Producers :
          (ppc[p] = "send" /\ ppc'[p] = "count") => Len(queue) < QUEUE_CAPACITY]_vars

\* C13: the items of one producer leave the queue of run_producer_consumer in
\* the order that producer sent them: the items pending are in increasing
\* local index, and an item is dequeued, by whichever consumer, only when every
\* earlier item of its producer has been dequeued and none is still pending.
C13_ProducerOrderKept ==
    pc_main # "idle" =>
        /\ \A j, k \in 1 .. Len(queue) :
              (j < k /\ IsJob8(queue[j]) /\ queue[j].prod = queue[k].prod) =>
                  queue[j].idx < queue[k].idx
        /\ \A p \in Producers : \A i \in DOMAIN received[p] :
              received[p][i] >= 1 =>
                  \A j \in 0 .. (i - 1) : received[p][j] >= 1 /\ Pending(p, j) = 0

\* The two consumers hold two items of one producer, the later item held by
\* consumer 0, while items of both producers are pending.
C13_Witness ==
    /\ IsJob8(cmsg[0]) /\ IsJob8(cmsg[1])
    /\ cpc[0] = "match" /\ cpc[1] = "match"
    /\ cmsg[0].prod = cmsg[1].prod
    /\ cmsg[0].idx > cmsg[1].idx
    /\ \A p \in Producers : \E k \in 1 .. Len(queue) : queue[k].prod = p

\* The sum of f over the set S.
RECURSIVE SumOver(_, _)
SumOver(f, S) ==
    IF S = {} THEN 0
    ELSE LET x == CHOOSE y \in S : TRUE IN f[x] + SumOver(f, S \ {x})

\* The termination signals the calling thread has enqueued so far: those
\* pending and those dequeued.
SignalsEnqueued11 ==
    Cardinality({k \in 1 .. Len(job_q) : job_q[k].kind = "None"})
        + SumOver(signals, Workers)

SignalsEnqueued8 ==
    Cardinality({k \in 1 .. Len(queue) : IsSignal8(queue[k])})
        + SumOver(sentinels_seen, Consumers)

\* C14: in both programs no worker/consumer handle is joined twice, every one
\* has been joined once when the call returns, and the calling thread starts
\* joining them only after it has enqueued one termination signal per worker.
C14_JoinOnceAfterSignals ==
    /\ main_pc # "idle" =>
         /\ \A w \in Workers :
               joins[w] <= 1 /\ (main_pc = "done" => joins[w] = 1)
         /\ (main_pc = "join" \/ \E w \in Workers : joins[w] > 0) =>
               SignalsEnqueued11 = workers
    /\ pc_main # "idle" =>
         /\ \A c \in Consumers :
               consumer_joins[c] <= 1 /\ (pc_main = "done" => consumer_joins[c] = 1)
         /\ (pc_main = "join_consumers" \/ \E c \in Consumers : consumer_joins[c] > 0) =>
               SignalsEnqueued8 = CONSUMER_COUNT

\* The calling thread of run_with_thread_pool has joined worker 0 and waits in
\* the join of worker 1, which has not yet dequeued its signal.
C14_Witness ==
    /\ main_pc = "join"
    /\ workers >= 2
    /\ joins[0] = 1 /\ joins[1] = 0
    /\ wpc[1] # "done"
    /\ \E k \in 1 .. Len(job_q) : job_q[k].kind = "None"

\* The partial results the calling thread has collected so far.
Collected == SumOver(processed, TaskIds) - Len(result_q)

\* C15: when a worker of run_with_thread_pool has failed while processing a
\* job, the call never returns a result: it returns only with every worker
\* ended normally and all N partial results collected and summed; and the
\* failure is not swallowed by waiting for ever: until the calling thread has
\* failed in its turn, some thread can take a step.
C15_WorkerFailurePropagates ==
    main_pc # "idle" =>
        /\ main_pc = "done" =>
              /\ \A w \in Workers : wpc[w] = "done"
              /\ Collected = Len(tasks)
              /\ total = sequential_process(data, tasks)
        /\ (\E w \in Workers : wpc[w] = "panicked") =>
              /\ main_pc # "done"
              /\ main_pc = "panicked" \/ ENABLED NextFault11

\* A worker failed on a job, another ended on its signal, and the calling
\* thread, some results collected, failed for want of the missing one.
C15_Witness ==
    /\ main_pc = "panicked"
    /\ \E w \in Workers : wpc[w] = "panicked" /\ message[w].kind = "Some"
    /\ \E w \in Workers : wpc[w] = "done"
    /\ Collected >= 1
    /\ Collected < Len(tasks)

\* C16: a call returns only after every thread it spawned has ended and been
\* joined, in both programs; while the thread being joined has not ended the
\* calling thread cannot move, so a worker that never finishes keeps the call
\* from returning; and once the call has returned no thread of it can take a
\* step any more, so none is alive when the next run starts.
C16_ReturnAfterAllJoined ==
    /\ main_pc = "done" =>
         /\ \A w \in Workers : wpc[w] = "done" /\ joins[w] = 1
         /\ ~ENABLED Next11
    /\ (main_pc = "join" /\ wpc[mi] \notin {"done", "panicked"}) => ~ENABLED Main11
    /\ pc_main = "done" =>
         /\ \A p \in Producers : ppc[p] = "done" /\ producer_joins[p] = 1
         /\ \A c \in Consumers : cpc[c] = "done" /\ consumer_joins[c] = 1
         /\ ~ENABLED Next8
    /\ (pc_main = "join_producers" /\ ppc[pj] # "done") => ~ENABLED Main8
    /\ (pc_main = "join_consumers" /\ cpc[pj] # "done") => ~ENABLED Main8

\* run_producer_consumer has returned: every producer and consumer ended and
\* joined, after the calling thread had to wait for them.
C16_Witness ==
    /\ pc_main = "done"
    /\ result.returned
    /\ \A p \in Producers : ppc[p] = "done" /\ producer_joins[p] = 1
    /\ \A c \in Consumers : cpc[c] = "done" /\ consumer_joins[c] = 1
    /\ total_items >= 4

\* The calling thread of run_with_thread_pool waits in a join for a worker
\* that is still at work.
C16_JoinWaits ==
    /\ main_pc = "join"
    /\ wpc[mi] \in {"lock", "recv", "unlock", "match"}

\* The entries producer p has put into the queue so far, pending or dequeued.
EnqueuedBy(p) ==
    Cardinality({k \in 1 .. Len(queue) : queue[k].prod = p})
        + SumOver(received[p], DOMAIN received[p])

\* floor(N / P) + 1 for the first N mod P producers, floor(N / P) for the rest.
Share(k) ==
    (total_items \div PRODUCER_COUNT)
        + (IF k < total_items % PRODUCER_COUNT THEN 1 ELSE 0)

\* C17: producer k of run_producer_consumer enqueues exactly its share of the
\* total_items real items, never more and, once it has ended, no fewer; the
\* shares sum to total_items and differ from each other by at most 1.
C17_ItemsSplitEvenly ==
    pc_main # "idle" =>
        /\ \A k \in Producers :
              /\ items_to_produce(k) = Share(k)
              /\ EnqueuedBy(k) <= Share(k)
              /\ EnqueuedBy(k) = SentBy(k)
              /\ ppc[k] = "done" => EnqueuedBy(k) = Share(k)
        /\ SumOver([k \in Producers |-> items_to_produce(k)], Producers) = total_items
        /\ \A j, k \in Producers : items_to_produce(j) - items_to_produce(k) <= 1

\* An odd total: both producers have ended, producer 0 with one item more.
C17_Witness ==
    /\ total_items % PRODUCER_COUNT = 1
    /\ \A k \in Producers : ppc[k] = "done"
    /\ EnqueuedBy(0) = EnqueuedBy(1) + 1
    /\ EnqueuedBy(0) + EnqueuedBy(1) = total_items

\* The real items enqueued so far, each as <<producer id, local index>>.
ItemsEnqueued ==
    {<<p, i>> \in Producers \X (0 .. MaxItems) : i < SentBy(p)}

\* C18: the tag of a real item of run_producer_consumer identifies it: no two
\* items enqueued in one run carry the same tag, and no real item carries
\* SENTINEL as its tag.
C18_TagsIdentifyItems ==
    pc_main # "idle" =>
        /\ \A a, b \in ItemsEnqueued :
              a # b => item_tag(a[1], a[2]) # item_tag(b[1], b[2])
        /\ \A a \in ItemsEnqueued : item_tag(a[1], a[2]) # SENTINEL

\* The two ways C18 fails, each reached on its own: two items with one tag,
\* and a real item tagged SENTINEL.
C18_TagShared ==
    \E a, b \in ItemsEnqueued :
        a # b /\ item_tag(a[1], a[2]) = item_tag(b[1], b[2])

C18_TagIsSentinel ==
    \E a \in ItemsEnqueued : item_tag(a[1], a[2]) = SENTINEL

\* C19: the mean measure_runs returns is the sum of the durations of runs
\* 1..RUNS-1 over RUNS - 1: all RUNS durations are returned, the warm-up's
\* first among them, and the mean is what the durations add up to without it.
C19_MeanSkipsWarmUp ==
    m_pc = "done" =>
        /\ Len(durations) = RUNS
        /\ avg.den = RUNS - 1
        /\ avg.num = sum(durations) - durations[1]
        /\ avg.num = sum([i \in 1 .. (RUNS - 1) |-> durations[i + 1]])

\* The warm-up took longer than every measured run, which all took no time:
\* the mean is zero.
C19_Witness ==
    /\ m_pc = "done"
    /\ durations[1] = MaxElapsed
    /\ \A i \in 2 .. Len(durations) : durations[i] = 0
    /\ avg.num = 0
    /\ avg.den = RUNS - 1

\* C20: measure_runs calls the workload with the run indices 0, 1, 2, ... in
\* this order, a call starting only when the one before has returned, RUNS
\* calls in all by the time it returns; durations and outputs grow together,
\* entry i being that of run index i, the warm-up's included, and both have
\* length RUNS when it returns.
C20_RunsInOrder ==
    m_pc # "idle" =>
        /\ \A i \in 1 .. Len(calls) : calls[i] = i - 1
        /\ Len(calls) <= RUNS
        /\ Len(calls) = Len(outputs) + (IF m_pc = "job" THEN 1 ELSE 0)
        /\ Len(durations) = Len(outputs)
        /\ \A i \in 1 .. Len(outputs) : outputs[i] = JobOutput(i - 1)
        /\ m_pc = "done" =>
              Len(calls) = RUNS /\ Len(durations) = RUNS /\ Len(outputs) = RUNS

\* The last run is in progress, the outputs of all the runs before it stored.
C20_Witness ==
    /\ m_pc = "job"
    /\ Len(calls) = RUNS
    /\ Len(outputs) = RUNS - 1
    /\ outputs[1] = JobOutput(0)


(***************************************************************************)
(* C21 .. C30                                                              *)
(***************************************************************************)
\* Whether a text is written as an integer: an optional sign, then digits.
IsInteger(text) ==
    LET ds == IF Len(text) > 0 /\ text[1] \in {"+", "-"} THEN Tail(text) ELSE text
    IN  Len(ds) > 0 /\ \A i \in 1 .. Len(ds) : ds[i] \in Digits

\* C21: when the command-line sizing argument is no integer, the process, once
\* past the reader, has written an error message to standard error and has
\* exited with a non-zero status, with nothing on standard output and no
\* workload run started.
C21_UnparsableArgumentRejected ==
    (arg.present /\ ~IsInteger(arg.text) /\ p_pc \notin {"read", "idle"}) =>
        /\ exit_status = "exit(1)"
        /\ Len(stderr) > 0
        /\ stdout = <<>>
        /\ runs_started = 0

C21_Witness ==
    /\ scenario = 8
    /\ arg.present
    /\ arg.text = <<"a", "a">>
    /\ exit_status = "exit(1)"
    /\ stderr = <<"invalid input">>

\* Whether a text is written as the integer zero.
IsZero(text) == IsInteger(text) /\ \A i \in 1 .. Len(text) : text[i] \in {"+", "-", "0"}

\* C22: when the command-line sizing argument is zero, the process ends with a
\* failure status and a report on standard error, and no workload run started.
C22_ZeroArgumentRejected ==
    (arg.present /\ IsZero(arg.text) /\ p_pc = "exited") =>
        /\ exit_status \in {"exit(1)", "panic"}
        /\ Len(stderr) > 0
        /\ runs_started = 0

\* C23: when there is no command-line argument and the line read from standard
\* input is empty, the reader does not fail: the program goes on with a size.
C23_EmptyLineGivesDefault ==
    (scenario \in Scenarios /\ ~arg.present /\ stdin_line \in {<<>>, <<"\n">>}
     /\ p_pc # "read") =>
        /\ exit_status # "exit(1)"
        /\ size > 0


\* How main ends after the summary: it prints the flags and returns.
MainOutcome(mismatch) == "success"

\* main of atvd-8 after measure_runs: the summary of the last run is printed,
\* deadlock_detected as a value among the others, and main returns.
Main8Report ==
    /\ pc_main = "done"
    /\ exit_status = "running"
    /\ stdout' = Append(stdout, IF result.deadlock_detected
                                  THEN "Deadlock detectado: true"
                                  ELSE "Deadlock detectado: false")
    /\ exit_status' = MainOutcome(result.deadlock_detected)
    /\ UNCHANGED <<scenario, arg, stdin_line, p_pc, size, stderr, runs_started>>
    /\ UNCHANGED <<vars11, vars8, varsM, varsC, varsD, varsN, varsB, varsV, varsS, varsE>>

NextReport8 ==
    \/ Next8
    \/ Main8Report

\* atvd-8 up to the end of its process.
ReportSpec8 == Start8 /\ [][NextReport8]_vars

\* C24: a process that ended with status 0 observed no mismatch: the run it
\* reports produced and consumed every item.
C24_MismatchAborts ==
    exit_status = "success" => ~result.deadlock_detected

\* The run reported at exit was incomplete.
C24_ExitZeroAfterMismatch ==
    /\ exit_status = "success"
    /\ result.deadlock_detected
    /\ result.consumed # total_items


\* thread_count * ITERATIONS_PER_THREAD, the total every strategy should reach.
ExpectedTotal == thread_count * iterations_per_thread

CounterReturned(st) == strategy = st /\ c_main = "returned"

\* C27: race_condition_counter called with one thread always returns
\* ITERATIONS_PER_THREAD (with two threads or more it can return less: the
\* witness).
C27_SingleThreadExact ==
    (CounterReturned("race_condition_counter") /\ thread_count = 1) =>
        c_result = iterations_per_thread

\* A call with several threads that returned less than the expected total.
C27_LostUpdate ==
    /\ CounterReturned("race_condition_counter")
    /\ thread_count >= 2
    /\ c_result < ExpectedTotal
    /\ stores = ExpectedTotal

\* C28: locked_counter / lock_each_increment, lock_once and atomic_counter
\* return exactly thread_count * ITERATIONS_PER_THREAD whenever they return,
\* the value of sequential_counter, and no thread of theirs panics.
C28_SynchronizedExact ==
    (strategy \in {"locked_counter", "lock_once", "atomic_counter"}) =>
        /\ c_main # "panicked"
        /\ \A t \in Threads : tpc[t] # "panicked"
        /\ c_main = "returned" =>
               /\ c_result = ExpectedTotal
               /\ c_result = sequential_counter(thread_count, iterations_per_thread)

\* locked_counter returned after two threads each read the counter when the
\* other had already written to it.
C28_Witness ==
    /\ CounterReturned("locked_counter")
    /\ thread_count = 2
    /\ iterations_per_thread >= 2
    /\ \A t \in Spawned : current[t] >= ExpectedTotal - 2
    /\ c_result = ExpectedTotal

\* What a thread still holds back from the counter: its local_batch while it
\* runs, nothing once it has ended.
LiveBatch(t) == IF tpc[t] = "done" THEN 0 ELSE local_batch[t]

RECURSIVE BatchSum(_)
BatchSum(S) ==
    IF S = {} THEN 0
    ELSE LET t == CHOOSE x \in S : TRUE IN LiveBatch(t) + BatchSum(S \ {t})

\* C29: lock_in_blocks returns exactly thread_count * ITERATIONS_PER_THREAD;
\* in every state the counter plus the threads' local batches is the number of
\* increments performed so far; at the head of each loop iteration a thread's
\* local_batch is below BLOCK_SIZE.
C29_BlocksExact ==
    (strategy = "lock_in_blocks") =>
        /\ c_main = "returned" => c_result = ExpectedTotal
        /\ counter + BatchSum(Threads) = increments
        /\ \A t \in Threads : tpc[t] = "increment" => local_batch[t] < batch_size

\* A returned call where ITERATIONS_PER_THREAD is no multiple of BLOCK_SIZE.
C29_Witness ==
    /\ CounterReturned("lock_in_blocks")
    /\ thread_count = 2
    /\ batch_size = 2
    /\ iterations_per_thread = 3
    /\ c_result = 6
    /\ \A t \in Spawned : local_batch[t] = 1

\* C30: in race_condition_counter the counter never exceeds the number of
\* stores performed so far; the value returned is at least 1 and at most
\* thread_count * ITERATIONS_PER_THREAD.
C30_RaceBounded ==
    (strategy = "race_condition_counter") =>
        /\ counter <= stores
        /\ c_main = "returned" => (c_result >= 1 /\ c_result <= ExpectedTotal)

\* The lower bound is attained: two threads, one surviving increment.
C30_Witness ==
    /\ CounterReturned("race_condition_counter")
    /\ thread_count = 2
    /\ stores = 2
    /\ c_result = 1


\* After the Mutex around job_rx is poisoned, a worker that leaves its lock
\* attempt has panicked, and nothing is received from job_rx.
PoolSurfaces ==
    (job_rx_lock = Poisoned) =>
        /\ \A w \in Workers : (wpc[w] = "lock" /\ wpc'[w] # "lock") => wpc'[w] = "panicked"
        /\ Len(job_q') >= Len(job_q)
        /\ dequeued' = dequeued
        /\ signals' = signals

\* The same for the Mutex around rx of atvd-8.
QueueSurfaces ==
    (shared_rx_lock = Poisoned) =>
        /\ \A c \in Consumers : (cpc[c] = "lock" /\ cpc'[c] # "lock") => cpc'[c] = "panicked"
        /\ Len(queue') >= Len(queue)
        /\ received' = received
        /\ sentinels_seen' = sentinels_seen

\* The same for the counter Mutex: the counter is neither read nor written.
CounterSurfaces ==
    poisoned =>
        /\ \A t \in Threads : (tpc[t] = "lock" /\ tpc'[t] # "lock") => tpc'[t] = "panicked"
        /\ counter' = counter
        /\ current' = current

\* The same for the lock around the map of atvd-12, after a failure of one of
\* the given kinds: the map is neither read nor written.
DbSurfaces(kinds) ==
    (db_failed \in kinds) =>
        /\ \A t \in DbThreads :
               (dpc[t] = "acquire" /\ dpc'[t] # "acquire") => dpc'[t] = "panicked"
        /\ db' = db
        /\ stats' = stats
        /\ d_current' = d_current

\* A lock attempt on a poisoned lock does not wait.
PoisonNeverBlocks(kinds) ==
    /\ (job_rx_lock = Poisoned) => \A w \in Workers : wpc[w] = "lock" => ENABLED WLock(w)
    /\ (shared_rx_lock = Poisoned) => \A c \in Consumers : cpc[c] = "lock" => ENABLED CLock(c)
    /\ poisoned => \A t \in Threads : tpc[t] = "lock" => ENABLED TLock(t)
    /\ (db_failed \in kinds) => \A t \in DbThreads : dpc[t] = "acquire" => ENABLED DAcquire(t)

\* C25 (as stated): after a thread failed while holding a shared lock in any
\* way, a read guard of the RwLock included, every lock attempt of another
\* thread ends at once in a panic and the protected state is not touched.
C25_AnyHolderFailureSurfaces ==
    /\ [](PoisonNeverBlocks({"shared", "exclusive"}))
    /\ [][PoolSurfaces /\ QueueSurfaces /\ CounterSurfaces
          /\ DbSurfaces({"shared", "exclusive"})]_vars

\* C25 (amended): after a thread failed while holding a shared lock
\* exclusively (a Mutex guard or the write guard of the RwLock), every lock
\* attempt of another thread ends at once in a panic and the protected state
\* is not touched.
C25_ExclusiveHolderFailureSurfaces ==
    /\ [](PoisonNeverBlocks({"exclusive"}))
    /\ [][PoolSurfaces /\ QueueSurfaces /\ CounterSurfaces
          /\ DbSurfaces({"exclusive"})]_vars

\* A writer failed under the write guard of the RwLock and a reader's read()
\* then panicked.
C25_Witness ==
    /\ primitive = "RwLock"
    /\ db_failed = "exclusive"
    /\ db_poisoned
    /\ \E t \in DbThreads : IsReader(t) /\ dpc[t] = "panicked"

\* A reader failed under a read guard of the RwLock and a writer then got
\* the write guard.
C25_ReaderFailureUnnoticed ==
    /\ primitive = "RwLock"
    /\ db_failed = "shared"
    /\ ~db_poisoned
    /\ \E t \in DbThreads : ~IsReader(t) /\ dpc[t] = "update"


\* C26: while run_with_thread_pool or naive_threads_per_task runs, and when it
\* has returned, the shared dataset is the vector generate_data produced; no
\* step changes it.
C26_DatasetNeverChanges ==
    /\ [](/\ main_pc # "idle" => dataset = generate_data(Len(tasks) * BLOCK_SIZE)
          /\ n_main # "idle" => n_dataset = generate_data(Len(n_tasks) * BLOCK_SIZE))
    /\ [][dataset' = dataset /\ n_dataset' = n_dataset]_vars

\* The pool returned after its workers summed every block of the dataset.
C26_Witness ==
    /\ main_pc = "done"
    /\ Len(tasks) = MaxTasks
    /\ \A k \in 1 .. Len(tasks) : processed[k] = 1
    /\ dataset = generate_data(MaxTasks * BLOCK_SIZE)
    /\ dataset[1] = 38 - 500


(***************************************************************************)
(* C31 .. C39                                                              *)
(***************************************************************************)
\* C31: in barrier_two_phase a thread is past barrier.wait only when all
\* thread_count threads have incremented phase1_counter; the violation flag is
\* never set and the call returns true.
C31_NoPhase2BeforeBarrier ==
    /\ \A t \in BThreads :
           bpc[t] \in {"check", "done"} => phase1_counter = b_thread_count
    /\ \A t \in BThreads :
           phase2_started[t] # NoHolder => phase2_started[t] = b_thread_count
    /\ ~violation
    /\ b_main = "returned" => b_result

\* A call with several threads returned true after the barrier released them.
C31_Witness ==
    /\ b_main = "returned"
    /\ b_thread_count = MaxBarrierThreads
    /\ b_generation = 1
    /\ \A t \in BThreads : phase2_started[t] = MaxBarrierThreads
    /\ b_result


\* The deltas of the writes completed so far.
RECURSIVE written_sum(_)
written_sum(n) ==
    IF n = 0 THEN 0
    ELSE writer_delta(n - 1) * d_iter[READERS + n - 1] + written_sum(n - 1)

\* C32: under the Mutex and under the RwLock alike, the database always sums
\* to its initial sum plus the deltas of the completed writes (no write is lost
\* and no reader changes it), and the run ends with final_sum equal to
\* expected_final_sum().
C32_FinalSumExpected ==
    primitive \in {"Mutex", "RwLock"} =>
        /\ values_sum(db, ACCOUNT_KEYS) =
               values_sum(initial_db, ACCOUNT_KEYS) + written_sum(WRITERS)
        /\ d_main = "returned" =>
               /\ metrics.final_sum = expected_final_sum
               /\ metrics.total_writes = WRITERS * OPS_PER_WRITER

\* A run under the RwLock ended after every reader and writer did all its
\* operations, two writers having written the same key.
C32_Witness ==
    /\ primitive = "RwLock"
    /\ d_main = "returned"
    /\ metrics.total_reads = READERS * OPS_PER_READER
    /\ metrics.total_writes = WRITERS * OPS_PER_WRITER
    /\ \E k \in Keys : db[k] = initial_db[k] + writers_delta_sum(WRITERS) \div OPS_PER_WRITER
    /\ metrics.final_sum = expected_final_sum


\* The real items whose send has completed: a producer at the fetch_add that
\* follows its send has sent one item more than it has counted.
RECURSIVE items_sent(_)
items_sent(n) ==
    IF n = 0 THEN 0
    ELSE item_idx[n - 1] + (IF ppc[n - 1] = "count" THEN 1 ELSE 0) + items_sent(n - 1)

\* C36: in run_producer_consumer consumed_count and produced_count never
\* exceed the number of real items sent, and consumed_count never exceeds
\* produced_count + PRODUCER_COUNT.
C36_CountersBounded ==
    pc_main # "idle" =>
        /\ consumed_count <= items_sent(PRODUCER_COUNT)
        /\ produced_count <= items_sent(PRODUCER_COUNT)
        /\ consumed_count <= produced_count + PRODUCER_COUNT

\* Every producer has sent an item it has not counted yet, and the consumers
\* have already counted those items.
C36_Witness ==
    /\ \A p \in Producers : ppc[p] = "count"
    /\ produced_count < items_sent(PRODUCER_COUNT)
    /\ consumed_count = produced_count + PRODUCER_COUNT
    /\ consumed_count > PRODUCER_COUNT


\* The workers and the consumers that are inside the receive block.
WorkersReceiving == {w \in Workers : wpc[w] \in {"recv", "unlock"}}

ConsumersReceiving == {c \in Consumers : cpc[c] \in {"recv", "unlock"}}

\* C37: the Mutex around the shared receiver is held only inside the receive
\* block: its holder is a thread inside the block, a thread outside the block
\* (processing a job, sending a result, updating a counter) does not hold it,
\* and at most one thread is inside the block.
C37_LockOnlyAroundReceive ==
    /\ \A w \in Workers :
           (job_rx_lock = w) <=> (w \in WorkersReceiving)
    /\ Cardinality(WorkersReceiving) <= 1
    /\ \A c \in Consumers :
           (shared_rx_lock = c) <=> (c \in ConsumersReceiving)
    /\ Cardinality(ConsumersReceiving) <= 1

\* Two workers process jobs at the same time while nobody holds the Mutex.
C37_Witness ==
    /\ \E w1, w2 \in Workers :
           /\ w1 # w2
           /\ wpc[w1] = "match" /\ message[w1].kind = "Some"
           /\ wpc[w2] = "match" /\ message[w2].kind = "Some"
    /\ job_rx_lock = NoHolder


\* A worker that failed while it processed a job.
FailedOnJob(w) == wpc[w] = "panicked" /\ message[w].kind = "Some"

\* C38: under fair scheduling, once a worker of run_with_thread_pool has
\* failed while processing a job the run does not hang: every other worker
\* stops, on a termination signal unless it failed too, every sender of the
\* result channel is dropped, and the calling thread's result receive returns
\* the closed-channel error (the expect then fails).
C38_FailureDoesNotHang ==
    (\E w \in Workers : FailedOnJob(w)) ~>
        /\ main_pc = "panicked"
        /\ result_tx_count = 0
        /\ \A w \in Workers :
               \/ wpc[w] = "done" /\ signals[w] = 1
               \/ FailedOnJob(w)

\* One worker failed on a job before the calling thread had collected
\* anything, the other stopped on its signal, no sender is left and the
\* calling thread got the error after taking the results that were pending.
C38_Witness ==
    /\ main_pc = "panicked"
    /\ workers >= 2
    /\ Cardinality({w \in Workers : FailedOnJob(w)}) = 1
    /\ \E w \in Workers : wpc[w] = "done" /\ signals[w] = 1
    /\ result_tx_count = 0
    /\ Len(result_q) = 0
    /\ Len(job_q) > 0


\* The runs after the warm-up all returned the reference.
LaterRunsRight == \A i \in 2 .. Len(v_outputs) : v_outputs[i] = baseline

\* C39: the comparison looks only at the runs 1 .. RUNS-1: the flag is true
\* exactly when each of them returned the reference, whatever run 0 returned,
\* so a wrong total of run 0 alone neither clears the flag nor fails the
\* assertion.
C39_WarmUpOutputIgnored ==
    v_pc \in {"done", "panicked"} =>
        /\ Len(v_outputs) = RUNS
        /\ v_correct <=> LaterRunsRight
        /\ LaterRunsRight => v_pc = "done"

\* Run 0 returned a wrong total, the other runs the right one, and the
\* assertion passed.
C39_Witness ==
    /\ v_pc = "done"
    /\ Asserted(check_kind)
    /\ v_outputs[1] # baseline
    /\ LaterRunsRight
    /\ v_correct


\* The indices of the vector that lie in one of the ranges.
Covered(ranges) ==
    {i \in 0 .. (vector_len - 1) :
        \E k \in 1 .. Len(ranges) : ranges[k].start <= i /\ i < ranges[k].end}

MinOf(a, b) == IF a < b THEN a ELSE b

\* C33: the ranges parallel_sum hands to its threads are pairwise disjoint and
\* lie inside [0, len); at most min(threads, len) threads are spawned; once
\* the spawning is over, the ranges summed (by the threads, or by the calling
\* thread where it spawns none) cover [0, len) exactly; and parallel_sum
\* returns what sequential_sum returned.
C33_ChunksPartitionVector ==
    s_main # "idle" =>
        /\ \A i, j \in 1 .. Len(handles) :
               i # j => \/ handles[i].end <= handles[j].start
                        \/ handles[j].end <= handles[i].start
        /\ \A i \in 1 .. Len(handles) :
               /\ 0 <= handles[i].start
               /\ handles[i].start < handles[i].end
               /\ handles[i].end <= vector_len
        /\ Len(handles) <= MinOf(sum_threads, vector_len)
        /\ Len(handles) = 0 \/ Len(inline_range) = 0
        /\ s_main \in {"join", "confere", "done"} =>
               Covered(handles \o inline_range) = 0 .. (vector_len - 1)
        /\ s_main \in {"confere", "done"} =>
               parallel_result = sequential_result

\* A vector shorter than twice the thread count: fewer threads than asked for
\* were spawned (the loop left at start >= len), the last range is shorter,
\* and the sums agree.
C33_Witness ==
    /\ s_main = "done"
    /\ Len(handles) >= 3
    /\ Len(handles) < sum_threads
    /\ handles[Len(handles)].end - handles[Len(handles)].start < chunk_size
    /\ parallel_result = sequential_result
    /\ parallel_result > 0

\* Whether the intermediate product of the oracle fits 64 bits.
ProductFits == vector_len = 0 \/ fits_i64(series_product(vector_len - 1))

\* C34: arithmetic_series_sum(len - 1) equals the sequential sum of
\* generate_vector(len) whenever the intermediate product does not overflow,
\* also for len = 0, where it is called with -1 and yields 0; 'confere' is
\* then true.
C34_OracleMatchesSum ==
    (s_main \in {"parallel", "spawn", "join", "confere", "done"} /\ ProductFits) =>
        /\ expected_sum = slice_sum(generate_vector(vector_len), 0, vector_len)
        /\ expected_sum = sequential_result
        /\ vector_len = 0 => expected_sum = 0
        /\ s_main = "done" => total_matches

\* The check passed on a vector whose sum is not zero.
C34_Witness ==
    /\ s_main = "done"
    /\ vector_len >= 3
    /\ ProductFits
    /\ expected_sum = sequential_result
    /\ expected_sum > 0
    /\ total_matches


\* What run_monte_carlo(samples_per_thread, id, ..) counts, from its arguments
\* alone.
CountOf(id) == count_inside(new(seed_of(id)), samples_per_thread)

RECURSIVE CountUpTo(_)
CountUpTo(n) == IF n = 0 THEN 0 ELSE CountOf(n - 1) + CountUpTo(n - 1)

\* C35: whatever the interleaving of the threads, each run_monte_carlo counts
\* what its seed offset and sample count determine, and estimate_pi_parallel
\* returns the sum of these counts, total_samples = threads *
\* samples_per_thread, and inside_circle <= total_samples.
C35_EstimateIndependentOfSchedule ==
    /\ \A t \in PiThreads : epc[t] = "done" => inside[t] = CountOf(t)
    /\ e_main = "returned" =>
           /\ pi_result.inside_circle = CountUpTo(pi_threads)
           /\ pi_result.total_samples = pi_threads * samples_per_thread
           /\ pi_result.inside_circle <= pi_result.total_samples

\* A call with several threads returned after they ended in another order
\* than they were spawned in, with points inside and outside the circle.
C35_Witness ==
    /\ e_main = "returned"
    /\ pi_threads = MaxPiThreads
    /\ samples_per_thread = MaxSamples
    /\ finish_order[1] # 0
    /\ pi_result.inside_circle > 0
    /\ pi_result.inside_circle < pi_result.total_samples

====
